---- MODULE Spec2Model ----
(***************************************************************************)
(* FlashArbitrage (contracts/FlashArbitrage.sol) with the contracts it is  *)
(* deployed against in this repository: MockAavePool, MockUniswapRouter    *)
(* and MockAMM.  A top-level call is one transaction.  The transaction of  *)
(* flashArbitrage is modelled step by step (lender frame, callback, hop 1, *)
(* hop 2 venue loop, settlement); a revert restores the chain state of the *)
(* transaction's start, as the EVM does.                                   *)
(***************************************************************************)
EXTENDS Integers, Sequences, FiniteSets, TLC

\* ---------------------------------------------------------------- bounds
MaxTx == 3            \* top-level transactions in one behaviour
MaxCallbacks == 2     \* callbacks a replaying lender issues in one loan
MaxTokens == 2        \* lock tokens handed out in one behaviour
MaxTime == 6          \* clock ticks in one behaviour of the bot
MaxRecorded == 6      \* value the breaker's failure counter is followed up to
MaxOpps == 2          \* opportunities one scan cycle comes back with
MaxExecuted == 1      \* value stats.executed is followed up to
MaxScans == 2         \* scans of hunt-and-kill before it finds something
MaxPairs == 3         \* entries of the scanner's pair table
MaxClockMs == 75000   \* time the two bot processes are followed for, in ms
MaxAttempts == 3      \* attempts the two bot processes begin in one behaviour

\* ------------------------------------------------------------- addresses
Zero == "zero"          \* address(0)
Self == "self"          \* address(this), the FlashArbitrage deployment
Owner == "owner"        \* Ownable owner: the deployer
Attacker == "attacker"  \* any other externally owned account
Pool == "pool"          \* the MockAavePool deployment
R1 == "r1"              \* MockUniswapRouter deployments
R2 == "r2"
PAB == "pab"            \* MockAMM(tokenA, tokenB)
PBA == "pba"            \* MockAMM(tokenB, tokenA)
TA == "TA"              \* TestToken deployments
TB == "TB"

Tokens == {TA, TB}
Callers == {Owner, Attacker}
Routers == {R1, R2}
Amms == {PAB, PBA}
Spenders == {Pool, R1, R2, PAB, PBA}
Holders == {Self, PAB, PBA}

\* ---------------------------------------------------------------- inputs
Amounts == {0, 50, 2000}             \* loan principals
MinProfits == {0, 60}
Paths1 == {<<TA>>, <<TA, TB>>, <<TB, TA>>}   \* hop-1 paths offered
Paths2 == {<<TA>>, <<TB, TA>>}               \* hop-2 paths offered
Rates == {995, 1015}                 \* venue output per 1000 of input
FundAmounts == {100}
WithdrawAmounts == {50}
ProfitAmounts == {100}
ReserveConfigs == {<<1000, 500>>, <<100, 1000>>}
AmmAmounts == {0, 10}
SeedReserves == <<100, 1000>>        \* reserves the mock setup seeds each pool with

VARIABLES
    aavePool, router1, router2,      \* configured lender and venues
    poolAB, poolBA, tokenA,          \* legacy pool configuration
    paused,                          \* Pausable._paused
    entered,                         \* ReentrancyGuard._status == ENTERED
    inFlashLoan,                     \* the loan-in-progress permit
    totalProfits,
    ethBalance,                      \* address(this).balance
    bal,                             \* ERC20 balances: holder -> token -> amount
    allow,                           \* ERC20 allowances granted by this contract
    reserves,                        \* MockAMM reserves: pool -> <<reserve0, reserve1>>
    pc,                              \* position in the running transaction
    frame,                           \* "loan": callback under flashArbitrage; "top": called directly
    call,                            \* arguments of the running flashArbitrage
    cb,                              \* the callback's arguments and locals
    pre,                             \* chain state at the start of the transaction
    last,                            \* the last finished top-level call and its outcome
    txCount

config == <<aavePool, router1, router2, poolAB, poolBA, tokenA, paused>>
chain == <<entered, inFlashLoan, totalProfits, ethBalance, bal, allow, reserves>>
txvars == <<pc, frame, call, cb, pre>>
vars == <<config, chain, txvars, last, txCount>>

\* The execution mutex (lib/lock.js) as the bot processes use it.
VARIABLES
    redis,                           \* the shared store's value for the key: a token, 0 when absent
    locks,                           \* RedisLock objects: _useInMemory and the key's value in _inMemory.store
    timers,                          \* pending setTimeout expiries of InMemoryLock: <<object, token>>
    leases,                          \* every token handed out: its object, its store, and what became of it
    nextToken,
    lockLast                         \* the last lock call and what it returned

lockvars == <<redis, locks, timers, leases, nextToken, lockLast>>

\* The bot's main loop (bot/arbitrage-bot.js) and its circuit breaker.
VARIABLES
    breaker,                         \* the CircuitBreaker object's fields
    now,                             \* Date.now()
    botPc                            \* where ArbitrageBot.start is: check, scan, paused, sleep, exited

botvars == <<breaker, now, botPc>>

\* One execution attempt of the bot (executeArbitrageReal and what it calls).
VARIABLES
    env,                             \* what initialize() left: flashbotsProvider set or null, USE_FLASH_LOAN
    queue,                           \* opportunities of this cycle the for loop has not reached yet
    att,                             \* the attempt in hand, or the cycle's last one with its outcome
    stats,                           \* this.stats.executed
    tx                               \* the transaction waited for (none, pending) and one whose
                                     \* wait timed out (none, pending, mined, reverted)

execvars == <<env, queue, att, stats, tx>>

\* The SlippageCalculator object and the calls made on it (lib/slippage-calculator.js).
VARIABLE calc

\* The hunt-and-kill script (scripts/hunt-and-kill.js).
VARIABLE hunt

\* The UniswapScanner object: its pair table with the reserves each pair contract
\* holds, and the last call made on it (lib/uniswap-scanner.js).
VARIABLE scan

\* Two bot processes sharing 'arb_lock' in a reachable Redis, on a clock in ms: the
\* key with its expiry, and each process's attempt (bot/arbitrage-bot.js, lib/lock.js).
VARIABLE lease

allvars == <<vars, lockvars, botvars, execvars, calc, hunt, scan, lease>>

\* ------------------------------------------------------------ chain state
Snapshot ==
    [entered |-> entered, inFlashLoan |-> inFlashLoan, totalProfits |-> totalProfits,
     ethBalance |-> ethBalance, bal |-> bal, allow |-> allow, reserves |-> reserves]

NoAllow == [t \in Tokens |-> [s \in Spenders |-> 0]]
NoBal == [h \in Holders |-> [t \in Tokens |-> 0]]
NoReserves == [p \in Amms |-> <<0, 0>>]

NoSnapshot ==
    [entered |-> FALSE, inFlashLoan |-> FALSE, totalProfits |-> 0,
     ethBalance |-> 0, bal |-> NoBal, allow |-> NoAllow, reserves |-> NoReserves]

NoCall ==
    [caller |-> Zero, asset |-> TA, amount |-> 0, path1 |-> <<>>, path2 |-> <<>>,
     minProfit |-> 0]

NoCb ==
    [caller |-> Zero, initiator |-> Zero, premium |-> 0, intermediateAmount |-> 0,
     i |-> 0, tried |-> <<>>, venue |-> Zero, amountReceived |-> 0, count |-> 0]

NoArg == [token |-> TA, to |-> Zero, amount |-> 0]

Outcome(op, caller, result, reason, arg) ==
    [op |-> op, caller |-> caller, result |-> result, reason |-> reason, arg |-> arg]

\* A top-level call ends: the outcome is recorded and no transaction is running.
Finish(op, caller, result, reason, arg) ==
    /\ last' = Outcome(op, caller, result, reason, arg)
    /\ txCount' = txCount + 1
    /\ pc' = "idle"
    /\ frame' = "none"
    /\ call' = NoCall
    /\ cb' = NoCb
    /\ pre' = NoSnapshot

\* A call that reverts before it changes anything.
Rejected(op, caller, reason, arg) ==
    /\ Finish(op, caller, "revert", reason, arg)
    /\ UNCHANGED <<config, chain>>

\* The running transaction reverts: the chain state of its start comes back.
RevertTx(reason) ==
    /\ entered' = pre.entered
    /\ inFlashLoan' = pre.inFlashLoan
    /\ totalProfits' = pre.totalProfits
    /\ ethBalance' = pre.ethBalance
    /\ bal' = pre.bal
    /\ allow' = pre.allow
    /\ reserves' = pre.reserves
    /\ Finish(IF frame = "loan" THEN "flashArbitrage" ELSE "executeOperation",
              call.caller, "revert", reason,
              [token |-> call.asset, to |-> Self, amount |-> call.amount])
    /\ UNCHANGED config

Idle == pc = "idle" /\ txCount < MaxTx

\* ------------------------------------------------------------- modifiers
\* Mutant: the onlyOwner modifier left off.
OnlyOwnerAnyone(caller) == TRUE

OnlyOwner(caller) == caller = Owner

NonReentrant == ~entered

\* Mutant: the whenNotPaused modifier left off.
WhenNotPausedIgnored == TRUE

WhenNotPaused == ~paused

\* The reason a guarded entry point rejects the caller with, or "ok".
OwnerGuard(caller) ==
    IF ~OnlyOwner(caller) THEN "Ownable: caller is not the owner" ELSE "ok"

\* ------------------------------------------------- configuration (owner)
ConfigurePools(caller, ab, ba, ta) ==
    /\ Idle
    /\ IF OwnerGuard(caller) # "ok"
       THEN Rejected("configurePools", caller, OwnerGuard(caller), NoArg)
       ELSE /\ poolAB' = ab
            /\ poolBA' = ba
            /\ tokenA' = ta
            /\ UNCHANGED <<aavePool, router1, router2, paused, chain>>
            /\ Finish("configurePools", caller, "ok", "", NoArg)

SetAavePool(caller, p) ==
    /\ Idle
    /\ IF OwnerGuard(caller) # "ok"
       THEN Rejected("setAavePool", caller, OwnerGuard(caller), NoArg)
       ELSE /\ aavePool' = p
            /\ UNCHANGED <<router1, router2, poolAB, poolBA, tokenA, paused, chain>>
            /\ Finish("setAavePool", caller, "ok", "", NoArg)

SetRouters(caller, r1, r2) ==
    /\ Idle
    /\ IF OwnerGuard(caller) # "ok"
       THEN Rejected("setRouters", caller, OwnerGuard(caller), NoArg)
       ELSE /\ router1' = r1
            /\ router2' = r2
            /\ UNCHANGED <<aavePool, poolAB, poolBA, tokenA, paused, chain>>
            /\ Finish("setRouters", caller, "ok", "", NoArg)

\* Pausable._pause is itself whenNotPaused, _unpause is whenPaused.
EmergencyPauseCheck(caller) ==
    IF OwnerGuard(caller) # "ok" THEN OwnerGuard(caller)
    ELSE IF paused THEN "Pausable: paused"
    ELSE "ok"

EmergencyPause(caller) ==
    /\ Idle
    /\ IF EmergencyPauseCheck(caller) # "ok"
       THEN Rejected("emergencyPause", caller, EmergencyPauseCheck(caller), NoArg)
       ELSE /\ paused' = TRUE
            /\ UNCHANGED <<aavePool, router1, router2, poolAB, poolBA, tokenA, chain>>
            /\ Finish("emergencyPause", caller, "ok", "", NoArg)

EmergencyUnpauseCheck(caller) ==
    IF OwnerGuard(caller) # "ok" THEN OwnerGuard(caller)
    ELSE IF ~paused THEN "Pausable: not paused"
    ELSE "ok"

EmergencyUnpause(caller) ==
    /\ Idle
    /\ IF EmergencyUnpauseCheck(caller) # "ok"
       THEN Rejected("emergencyUnpause", caller, EmergencyUnpauseCheck(caller), NoArg)
       ELSE /\ paused' = FALSE
            /\ UNCHANGED <<aavePool, router1, router2, poolAB, poolBA, tokenA, chain>>
            /\ Finish("emergencyUnpause", caller, "ok", "", NoArg)

RecordProfit(caller, amount) ==
    /\ Idle
    /\ IF OwnerGuard(caller) # "ok"
       THEN Rejected("recordProfit", caller, OwnerGuard(caller), NoArg)
       ELSE /\ totalProfits' = totalProfits + amount
            /\ UNCHANGED <<config, entered, inFlashLoan, ethBalance, bal, allow, reserves>>
            /\ Finish("recordProfit", caller, "ok", "", NoArg)

\* ------------------------------------------------------------ withdrawal
\* Mutant: withdrawToken carrying whenNotPaused like the trading entry points.
WithdrawTokenCheckPaused(caller, token, to, amount) ==
    IF OwnerGuard(caller) # "ok" THEN OwnerGuard(caller)
    ELSE IF ~NonReentrant THEN "ReentrancyGuard: reentrant call"
    ELSE IF paused THEN "Pausable: paused"
    ELSE IF to = Zero THEN "Invalid address"
    ELSE IF ~(bal[Self][token] >= amount) THEN "Insufficient token balance"
    ELSE "ok"

WithdrawTokenCheck(caller, token, to, amount) ==
    IF OwnerGuard(caller) # "ok" THEN OwnerGuard(caller)
    ELSE IF ~NonReentrant THEN "ReentrancyGuard: reentrant call"
    ELSE IF to = Zero THEN "Invalid address"
    ELSE IF ~(bal[Self][token] >= amount) THEN "Insufficient token balance"
    ELSE "ok"

WithdrawToken(caller, token, to, amount) ==
    LET arg == [token |-> token, to |-> to, amount |-> amount] IN
    /\ Idle
    /\ IF WithdrawTokenCheck(caller, token, to, amount) # "ok"
       THEN Rejected("withdrawToken", caller, WithdrawTokenCheck(caller, token, to, amount), arg)
       ELSE /\ bal' = [bal EXCEPT ![Self][token] = @ - amount]
            /\ UNCHANGED <<config, entered, inFlashLoan, totalProfits, ethBalance, allow, reserves>>
            /\ Finish("withdrawToken", caller, "ok", "", arg)

WithdrawCheck(caller, to, amount) ==
    IF OwnerGuard(caller) # "ok" THEN OwnerGuard(caller)
    ELSE IF ~NonReentrant THEN "ReentrancyGuard: reentrant call"
    ELSE IF to = Zero THEN "Invalid address"
    ELSE IF ~(ethBalance >= amount) THEN "Insufficient balance"
    ELSE "ok"

Withdraw(caller, to, amount) ==
    LET arg == [token |-> "ETH", to |-> to, amount |-> amount] IN
    /\ Idle
    /\ IF WithdrawCheck(caller, to, amount) # "ok"
       THEN Rejected("withdraw", caller, WithdrawCheck(caller, to, amount), arg)
       ELSE /\ ethBalance' = ethBalance - amount
            /\ UNCHANGED <<config, entered, inFlashLoan, totalProfits, bal, allow, reserves>>
            /\ Finish("withdraw", caller, "ok", "", arg)

\* receive(): anyone may send ETH to the contract.
Receive(caller, amount) ==
    /\ Idle
    /\ ethBalance' = ethBalance + amount
    /\ UNCHANGED <<config, entered, inFlashLoan, totalProfits, bal, allow, reserves>>
    /\ Finish("receive", caller, "ok", "", NoArg)

\* A holder of test tokens transfers some to the contract.
FundToken(caller, token, amount) ==
    /\ Idle
    /\ bal' = [bal EXCEPT ![Self][token] = @ + amount]
    /\ UNCHANGED <<config, entered, inFlashLoan, totalProfits, ethBalance, allow, reserves>>
    /\ Finish("fundToken", caller, "ok", "", NoArg)

\* ---------------------------------------------------------------- ERC20
\* The tokens' state the contract's calls read and write.
World == [bal |-> bal, allow |-> allow, reserves |-> reserves]

\* IERC20.approve: the allowance is set, not added to.
Approve(w, token, spender, amount) ==
    [w EXCEPT !.allow[token][spender] = amount]

\* --------------------------------------------------------------- MockAMM
AmmTokens == [p \in Amms |-> IF p = PAB THEN <<TA, TB>> ELSE <<TB, TA>>]

\* MockAMM.setReserves: anyone may call it.
SetReserves(caller, pool, r) ==
    /\ Idle
    /\ reserves' = [reserves EXCEPT ![pool] = r]
    /\ UNCHANGED <<config, entered, inFlashLoan, totalProfits, ethBalance, bal, allow>>
    /\ Finish("setReserves", caller, "ok", "", NoArg)

GetAmountOut(amountIn, reserveIn, reserveOut) ==
    IF amountIn = 0 \/ reserveIn = 0 \/ reserveOut = 0 THEN 0
    ELSE (amountIn * reserveOut) \div (reserveIn + amountIn)

\* MockAMM.swapExactTokensForTokens called by this contract, to = this contract.
AmmSwap(w, pool, amountIn, tokenIn) ==
    LET t0 == AmmTokens[pool][1]
        t1 == AmmTokens[pool][2]
        r0 == w.reserves[pool][1]
        r1 == w.reserves[pool][2]
        tokenOut == IF tokenIn = t0 THEN t1 ELSE t0
        out == IF tokenIn = t0 THEN GetAmountOut(amountIn, r0, r1)
                               ELSE GetAmountOut(amountIn, r1, r0)
        pulled == [w EXCEPT !.bal[Self][tokenIn] = @ - amountIn,
                            !.bal[pool][tokenIn] = @ + amountIn,
                            !.allow[tokenIn][pool] = @ - amountIn]
        moved == [pulled EXCEPT
                    !.reserves[pool] = IF tokenIn = t0 THEN <<r0 + amountIn, r1 - out>>
                                                       ELSE <<r0 - out, r1 + amountIn>>]
        paid == [moved EXCEPT !.bal[pool][tokenOut] = @ - out,
                              !.bal[Self][tokenOut] = @ + out]
    IN  IF ~(amountIn > 0) THEN [ok |-> FALSE, reason |-> "amountIn==0", w |-> w, out |-> 0]
        ELSE IF tokenIn \notin {t0, t1}
        THEN [ok |-> FALSE, reason |-> "tokenIn not supported", w |-> w, out |-> 0]
        ELSE IF w.bal[Self][tokenIn] < amountIn \/ w.allow[tokenIn][pool] < amountIn
        THEN [ok |-> FALSE, reason |-> "ERC20: transferFrom failed", w |-> w, out |-> 0]
        ELSE IF moved.bal[pool][tokenOut] < out
        THEN [ok |-> FALSE, reason |-> "ERC20: transfer amount exceeds balance", w |-> w, out |-> 0]
        ELSE [ok |-> TRUE, reason |-> "", w |-> paid, out |-> out]

\* ------------------------------------------------------ executeArbitrage
ExecuteArbitrageCheck(caller) ==
    IF OwnerGuard(caller) # "ok" THEN OwnerGuard(caller)
    ELSE IF ~NonReentrant THEN "ReentrancyGuard: reentrant call"
    ELSE IF ~WhenNotPaused THEN "Pausable: paused"
    ELSE IF ~(poolAB # Zero /\ poolBA # Zero /\ tokenA # Zero) THEN "Pools or token not configured"
    ELSE "ok"

\* executeArbitrage accepting whatever the round trip returns.
RoundTripPaysAlways(amountAAfter, amountIn) == TRUE

\* require(amountAAfter > amountIn, "Arbitrage not profitable")
RoundTripPays(amountAAfter, amountIn) == amountAAfter > amountIn

\* The body of executeArbitrage after its guards: both swaps and the profit check.
ExecuteArbitrageBody(amountIn) ==
    LET t0 == AmmTokens[poolAB][1]
        t1 == AmmTokens[poolAB][2]
        tokenB == IF t0 = tokenA THEN t1 ELSE t0
        s1 == AmmSwap(Approve(World, tokenA, poolAB, amountIn), poolAB, amountIn, tokenA)
        s2 == AmmSwap(Approve(s1.w, tokenB, poolBA, s1.out), poolBA, s1.out, tokenB)
    IN  IF ~s1.ok THEN [ok |-> FALSE, reason |-> s1.reason, w |-> World, profit |-> 0]
        ELSE IF ~s2.ok THEN [ok |-> FALSE, reason |-> s2.reason, w |-> World, profit |-> 0]
        ELSE IF ~RoundTripPays(s2.out, amountIn)
        THEN [ok |-> FALSE, reason |-> "Arbitrage not profitable", w |-> World, profit |-> 0]
        ELSE [ok |-> TRUE, reason |-> "", w |-> s2.w, profit |-> s2.out - amountIn]

ExecuteArbitrage(caller, amountIn) ==
    LET arg == [token |-> tokenA, to |-> Self, amount |-> amountIn] IN
    /\ Idle
    /\ IF ExecuteArbitrageCheck(caller) # "ok"
       THEN Rejected("executeArbitrage", caller, ExecuteArbitrageCheck(caller), arg)
       ELSE LET r == ExecuteArbitrageBody(amountIn) IN
            IF ~r.ok
            THEN Rejected("executeArbitrage", caller, r.reason, arg)
            ELSE /\ bal' = r.w.bal
                 /\ allow' = r.w.allow
                 /\ reserves' = r.w.reserves
                 /\ totalProfits' = totalProfits + r.profit
                 /\ UNCHANGED <<config, entered, inFlashLoan, ethBalance>>
                 /\ Finish("executeArbitrage", caller, "ok", "", arg)

\* ------------------------------------------------------- flashArbitrage
PathsLongEnough(path1, path2) == Len(path1) >= 2 /\ Len(path2) >= 2

\* Mutant: only the start of the route is compared with the asset.
PathsOnAssetStartOnly(asset, path1, path2) == path1[1] = asset

PathsOnAsset(asset, path1, path2) == path1[1] = asset /\ path2[Len(path2)] = asset

\* The modifiers and requires of flashArbitrage, in the order the code runs them.
FlashArbitrageCheck(caller, asset, path1, path2) ==
    IF OwnerGuard(caller) # "ok" THEN OwnerGuard(caller)
    ELSE IF ~NonReentrant THEN "ReentrancyGuard: reentrant call"
    ELSE IF ~WhenNotPaused THEN "Pausable: paused"
    ELSE IF ~(aavePool # Zero) THEN "Aave Pool not configured"
    ELSE IF ~(router1 # Zero /\ router2 # Zero) THEN "Routers not configured"
    ELSE IF ~PathsLongEnough(path1, path2) THEN "Invalid paths"
    ELSE IF ~PathsOnAsset(asset, path1, path2)
    THEN "Paths must start and end with flash loan asset"
    ELSE "ok"

\* Entry of flashArbitrage up to the call of aavePool.flashLoanSimple.
FlashArbitrage(caller, asset, amount, path1, path2, minProfit) ==
    /\ Idle
    /\ IF FlashArbitrageCheck(caller, asset, path1, path2) # "ok"
       THEN Rejected("flashArbitrage", caller,
                     FlashArbitrageCheck(caller, asset, path1, path2), NoArg)
       ELSE /\ pre' = Snapshot
            /\ entered' = TRUE
            /\ inFlashLoan' = TRUE
            /\ pc' = "lender"
            /\ frame' = "loan"
            /\ call' = [caller |-> caller, asset |-> asset, amount |-> amount,
                        path1 |-> path1, path2 |-> path2, minProfit |-> minProfit]
            /\ cb' = NoCb
            /\ UNCHANGED <<config, totalProfits, ethBalance, bal, allow, reserves,
                           last, txCount>>

\* ---------------------------------------------------- executeOperation
\* MockAavePool.flashLoanSimple: the premium it charges.
Premium(amount) == (amount * 5) \div 10000

\* Mutant: the permit require left out of executeOperation.
CallbackGuardNoPermit(caller, initiator) ==
    IF ~(caller = aavePool) THEN "Caller must be Aave Pool"
    ELSE IF ~(initiator = Self) THEN "Initiator must be this contract"
    ELSE "ok"

\* The three requires that open executeOperation.
CallbackGuard(caller, initiator) ==
    IF ~(caller = aavePool) THEN "Caller must be Aave Pool"
    ELSE IF ~(initiator = Self) THEN "Initiator must be this contract"
    ELSE IF ~inFlashLoan THEN "Not in flash loan"
    ELSE "ok"

\* executeOperation is entered with these arguments and has passed its guards.
EnterCallback(caller, initiator, premium) ==
    /\ pc' = "hop1"
    /\ cb' = [cb EXCEPT !.caller = caller, !.initiator = initiator, !.premium = premium,
                        !.intermediateAmount = 0, !.i = 0, !.tried = <<>>,
                        !.venue = Zero, !.amountReceived = 0]

\* MockAavePool.flashLoanSimple calls the receiver back, msg.sender being the
\* initiator, and requires the callback to succeed.
InvokeCallback ==
    IF CallbackGuard(aavePool, Self) # "ok"
    THEN RevertTx("Flash loan callback failed")
    ELSE /\ EnterCallback(aavePool, Self, Premium(call.amount))
         /\ UNCHANGED <<config, chain, frame, call, pre, last, txCount>>

LenderCallback ==
    /\ pc = "lender"
    /\ cb.count = 0
    /\ InvokeCallback

\* A lender that calls the receiver back again after a callback returned.
LenderReplay ==
    /\ pc = "lender"
    /\ cb.count >= 1
    /\ cb.count < MaxCallbacks
    /\ InvokeCallback

\* executeOperation called outside any loan: directly by an account, or by
\* MockAavePool.simulateCallback (msg.sender is then the pool).
ExecuteOperation(caller, initiator, asset, amount, premium, path1, path2, minProfit) ==
    /\ Idle
    /\ IF CallbackGuard(caller, initiator) # "ok"
       THEN Rejected("executeOperation", caller, CallbackGuard(caller, initiator), NoArg)
       ELSE /\ pre' = Snapshot
            /\ frame' = "top"
            /\ call' = [caller |-> caller, asset |-> asset, amount |-> amount,
                        path1 |-> path1, path2 |-> path2, minProfit |-> minProfit]
            /\ EnterCallback(caller, initiator, premium)
            /\ UNCHANGED <<config, chain, last, txCount>>

\* ------------------------------------------------------- _executeSwaps
\* MockUniswapRouter.swapExactTokensForTokens: the outcomes a venue can give for
\* amountIn.  The venue is an external contract: it reverts, or it pays
\* amountIn * rate / 1000 for one of the rates it may quote, which it does only
\* when that meets amountOutMin ("Slippage exceeded" otherwise).
RouterSwapOutcomes(amountIn, amountOutMin) ==
    {[ok |-> FALSE, out |-> 0]} \cup
    {[ok |-> TRUE, out |-> (amountIn * r) \div 1000] :
        r \in {q \in Rates : (amountIn * q) \div 1000 >= amountOutMin}}

MinAmountOut1 == 0

\* The floor hop 2 asks every venue for.
MinAmountOut(amount) == (amount * 101) \div 100

\* routers[i], i counted from 0: primary router2, fallback router1.
RouterAt(i) == IF i = 0 THEN router2 ELSE router1

RoutersLength == 2

\* Step 1: approve router1 and swap on it; then approve router2 for the output.
SwapHop1 ==
    /\ pc = "hop1"
    /\ \E o \in RouterSwapOutcomes(call.amount, MinAmountOut1) :
         IF ~o.ok
         THEN RevertTx("hop 1 swap failed")
         ELSE LET intermediateToken == call.path1[Len(call.path1)]
                  w1 == Approve(World, call.asset, router1, call.amount)
                  w2 == Approve(w1, intermediateToken, router2, o.out)
              IN  /\ allow' = w2.allow
                  /\ cb' = [cb EXCEPT !.intermediateAmount = o.out, !.i = 0]
                  /\ pc' = "hop2"
                  /\ UNCHANGED <<config, entered, inFlashLoan, totalProfits, ethBalance,
                                 bal, reserves, frame, call, pre, last, txCount>>

\* One round of the venue loop: try routers[i]; a success breaks out of the loop,
\* a revert is caught and the loop goes on to the next venue.
SwapHop2 ==
    /\ pc = "hop2"
    /\ \E o \in RouterSwapOutcomes(cb.intermediateAmount, MinAmountOut(call.amount)) :
         LET tried == Append(cb.tried, RouterAt(cb.i)) IN
         /\ IF o.ok
            THEN /\ cb' = [cb EXCEPT !.amountReceived = o.out, !.venue = RouterAt(cb.i),
                                     !.tried = tried]
                 /\ pc' = "settle"
            ELSE IF cb.i + 1 < RoutersLength
            THEN /\ cb' = [cb EXCEPT !.i = cb.i + 1, !.tried = tried]
                 /\ pc' = "hop2"
            ELSE /\ cb' = [cb EXCEPT !.i = cb.i + 1, !.tried = tried]
                 /\ pc' = "settle"
         /\ UNCHANGED <<config, chain, frame, call, pre, last, txCount>>

\* The net-profit floor that closes _executeSwaps.
NetFloor(amount) == amount + ((amount * 50) \div 10000)

AmountOwed(amount, premium) == amount + premium

\* Mutant: the minProfit require left out.
SettleCheckNoMinProfit(amountReceived, amount, premium, minProfit) ==
    IF ~(amountReceived > 0) THEN "All swap attempts failed"
    ELSE IF ~(amountReceived >= NetFloor(amount)) THEN "Arbitrage not profitable"
    ELSE IF ~(amountReceived > AmountOwed(amount, premium)) THEN "Arbitrage not profitable"
    ELSE "ok"

\* Mutant: the profitability comparison written >= instead of >.
SettleCheckNonStrict(amountReceived, amount, premium, minProfit) ==
    IF ~(amountReceived > 0) THEN "All swap attempts failed"
    ELSE IF ~(amountReceived >= NetFloor(amount)) THEN "Arbitrage not profitable"
    ELSE IF ~(amountReceived >= AmountOwed(amount, premium)) THEN "Arbitrage not profitable"
    ELSE IF ~(amountReceived - AmountOwed(amount, premium) >= minProfit)
    THEN "Profit below minimum threshold"
    ELSE "ok"

\* The requires between the venue loop and the repayment approval.
SettleCheck(amountReceived, amount, premium, minProfit) ==
    IF ~(amountReceived > 0) THEN "All swap attempts failed"
    ELSE IF ~(amountReceived >= NetFloor(amount)) THEN "Arbitrage not profitable"
    ELSE IF ~(amountReceived > AmountOwed(amount, premium)) THEN "Arbitrage not profitable"
    ELSE IF ~(amountReceived - AmountOwed(amount, premium) >= minProfit)
    THEN "Profit below minimum threshold"
    ELSE "ok"

\* Mutant: the whole proceeds approved to the lender.
RepaymentApprovalAll(amountReceived, amount, premium) == amountReceived

\* What the callback approves the lender for.
RepaymentApproval(amountReceived, amount, premium) == AmountOwed(amount, premium)

\* Mutant: the profit counted before the premium is taken off.
RealizedProfitGross(finalAmount, amount, premium) == finalAmount - amount

\* profit = finalAmount - amountOwed
RealizedProfit(finalAmount, amount, premium) == finalAmount - AmountOwed(amount, premium)

\* The end of the callback: the profit checks, the approval, the counter.
Settle ==
    /\ pc = "settle"
    /\ IF SettleCheck(cb.amountReceived, call.amount, cb.premium, call.minProfit) # "ok"
       THEN RevertTx(SettleCheck(cb.amountReceived, call.amount, cb.premium, call.minProfit))
       ELSE LET finalAmount == cb.amountReceived
                profit == RealizedProfit(finalAmount, call.amount, cb.premium)
                w == Approve(World, call.asset, aavePool,
                             RepaymentApproval(finalAmount, call.amount, cb.premium))
            IN  /\ allow' = w.allow
                /\ totalProfits' = totalProfits + profit
                /\ UNCHANGED <<config, entered, inFlashLoan, ethBalance, bal, reserves>>
                /\ IF frame = "loan"
                   THEN /\ pc' = "lender"
                        /\ cb' = [cb EXCEPT !.count = cb.count + 1]
                        /\ UNCHANGED <<frame, call, pre, last, txCount>>
                   ELSE Finish("executeOperation", call.caller, "ok", "", NoArg)

\* Mutant: flashArbitrage returning without clearing the permit.
LoanReturnKeepsPermit ==
    /\ pc = "lender"
    /\ cb.count >= 1
    /\ inFlashLoan' = inFlashLoan
    /\ entered' = FALSE
    /\ UNCHANGED <<config, totalProfits, ethBalance, bal, allow, reserves>>
    /\ Finish("flashArbitrage", call.caller, "ok", "",
              [token |-> call.asset, to |-> Self, amount |-> call.amount])

\* flashLoanSimple returns; flashArbitrage clears the permit and returns.
LoanReturn ==
    /\ pc = "lender"
    /\ cb.count >= 1
    /\ inFlashLoan' = FALSE
    /\ entered' = FALSE
    /\ UNCHANGED <<config, totalProfits, ethBalance, bal, allow, reserves>>
    /\ Finish("flashArbitrage", call.caller, "ok", "",
              [token |-> call.asset, to |-> Self, amount |-> call.amount])

\* ------------------------------------------------------ execution mutex
\* RedisLock objects.  The bot builds one per acquisition, at two call sites of the
\* same process; a second bot process has its own.
LockObjs == {"a1", "a2", "b1"}
ProcOf == [o \in LockObjs |-> IF o = "b1" THEN "B" ELSE "A"]
TokenIds == 1..MaxTokens

NoLease == [obj |-> "none", via |-> "none", state |-> "unused"]
NewRedisLock == [useInMemory |-> FALSE, store |-> 0]

LockCall(op, o, token, ret) == [op |-> op, obj |-> o, token |-> token, ret |-> ret]

\* Mutant: SET without NX.
SetIfAbsentOverwrites(stored) == TRUE

\* redis.set(key, token, 'PX', ttl, 'NX') succeeds when the key is absent.
SetIfAbsent(stored) == stored = 0

\* InMemoryLock.acquire: this.store.has(key)
StoreHas(stored) == stored # 0

\* Mutant: release deleting whatever token is stored.
TokenMatchesAny(stored, token) == stored # 0

\* The test of release and of the expiry timer: the stored value is this token.
TokenMatches(stored, token) == stored = token

\* Mutant: acquire that schedules no expiry.
ScheduleExpiryNever(pending, o, token) == pending

\* setTimeout(..., ttl) of InMemoryLock.acquire.
ScheduleExpiry(pending, o, token) == pending \cup {<<o, token>>}

\* The catch blocks of RedisLock and its 'error' handler: a new InMemoryLock.
FallBack(o) == [locks EXCEPT ![o] = [useInMemory |-> TRUE, store |-> 0]]

\* InMemoryLock.acquire on the object's map, the object being lk[o].
MemAcquire(lk, o) ==
    IF StoreHas(lk[o].store)
    THEN /\ locks' = lk
         /\ lockLast' = LockCall("acquire", o, 0, 0)
         /\ UNCHANGED <<redis, timers, leases, nextToken>>
    ELSE /\ locks' = [lk EXCEPT ![o].store = nextToken]
         /\ timers' = ScheduleExpiry(timers, o, nextToken)
         /\ leases' = [leases EXCEPT ![nextToken] =
                            [obj |-> o, via |-> "memory", state |-> "held"]]
         /\ lockLast' = LockCall("acquire", o, nextToken, nextToken)
         /\ nextToken' = nextToken + 1
         /\ UNCHANGED redis

\* RedisLock.acquire.  reachable: the store answers; otherwise the command rejects.
Acquire(o, reachable) ==
    /\ nextToken <= MaxTokens
    /\ IF locks[o].useInMemory
       THEN MemAcquire(locks, o)
       ELSE IF reachable
       THEN IF SetIfAbsent(redis)
            THEN /\ redis' = nextToken
                 /\ leases' = [leases EXCEPT ![nextToken] =
                                    [obj |-> o, via |-> "redis", state |-> "held"]]
                 /\ lockLast' = LockCall("acquire", o, nextToken, nextToken)
                 /\ nextToken' = nextToken + 1
                 /\ UNCHANGED <<locks, timers>>
            ELSE /\ lockLast' = LockCall("acquire", o, 0, 0)
                 /\ UNCHANGED <<redis, locks, timers, leases, nextToken>>
       ELSE MemAcquire(FallBack(o), o)

\* InMemoryLock.release on the object's map.
MemRelease(lk, o, token) ==
    IF TokenMatches(lk[o].store, token)
    THEN /\ locks' = [lk EXCEPT ![o].store = 0]
         /\ leases' = [leases EXCEPT ![token].state = "released"]
         /\ lockLast' = LockCall("release", o, token, 1)
         /\ UNCHANGED <<redis, timers, nextToken>>
    ELSE /\ locks' = lk
         /\ lockLast' = LockCall("release", o, token, 0)
         /\ UNCHANGED <<redis, timers, leases, nextToken>>

\* RedisLock.release with a token this object handed out earlier.
Release(o, token, reachable) ==
    /\ leases[token].obj = o
    /\ IF locks[o].useInMemory
       THEN MemRelease(locks, o, token)
       ELSE IF reachable
       THEN IF TokenMatches(redis, token)
            THEN /\ redis' = 0
                 /\ leases' = [leases EXCEPT ![token].state = "released"]
                 /\ lockLast' = LockCall("release", o, token, 1)
                 /\ UNCHANGED <<locks, timers, nextToken>>
            ELSE /\ lockLast' = LockCall("release", o, token, 0)
                 /\ UNCHANGED <<redis, locks, timers, leases, nextToken>>
       ELSE MemRelease(FallBack(o), o, token)

\* The 'error' handler of the connection.
RedisError(o) ==
    /\ ~locks[o].useInMemory
    /\ locks' = FallBack(o)
    /\ lockLast' = LockCall("error", o, 0, 0)
    /\ UNCHANGED <<redis, timers, leases, nextToken>>

\* The shared store drops the key when its PX time is over.
RedisExpire ==
    /\ redis # 0
    /\ redis' = 0
    /\ leases' = [leases EXCEPT ![redis].state = "expired"]
    /\ lockLast' = LockCall("expire", leases[redis].obj, redis, 0)
    /\ UNCHANGED <<locks, timers, nextToken>>

\* The expiry timer of an in-memory lease runs.
TimerFire(o, token) ==
    /\ <<o, token>> \in timers
    /\ timers' = timers \ {<<o, token>>}
    /\ IF TokenMatches(locks[o].store, token)
       THEN /\ locks' = [locks EXCEPT ![o].store = 0]
            /\ leases' = [leases EXCEPT ![token].state = "expired"]
       ELSE UNCHANGED <<locks, leases>>
    /\ lockLast' = LockCall("timer", o, token, 0)
    /\ UNCHANGED <<redis, nextToken>>

\* lock.quit() after the release, and the next acquisition's new RedisLock().
NewLock(o) ==
    /\ locks[o] # NewRedisLock
    /\ ~StoreHas(locks[o].store)
    /\ locks' = [locks EXCEPT ![o] = NewRedisLock]
    /\ timers' = {t \in timers : t[1] # o}
    /\ lockLast' = LockCall("new", o, 0, 0)
    /\ UNCHANGED <<redis, leases, nextToken>>

LockInit ==
    /\ redis = 0
    /\ locks = [o \in LockObjs |-> NewRedisLock]
    /\ timers = {}
    /\ leases = [t \in TokenIds |-> NoLease]
    /\ nextToken = 1
    /\ lockLast = LockCall("none", "none", 0, 0)

\* ------------------------------------------------------- circuit breaker
Null == 0 - 1                        \* lastFailureTime before any failure
DefaultMaxFailures == 5
DefaultResetTimeout == 60000
MaxFailuresOptions == {0, 1, 2}      \* MAX_FAILURES as parsed; 0 stands for a falsy value
ResetTimeoutOptions == {0, 2}        \* CIRCUIT_RESET_MS as parsed, in clock ticks

\* options.x || d
OrDefault(v, d) == IF v = 0 THEN d ELSE v

\* new CircuitBreaker(options)
NewCircuitBreaker(maxFailures, resetTimeout) ==
    [maxFailures |-> OrDefault(maxFailures, DefaultMaxFailures),
     resetTimeout |-> OrDefault(resetTimeout, DefaultResetTimeout),
     failures |-> 0, totalProfit |-> 0, state |-> "CLOSED", lastFailureTime |-> Null]

\* Mutant: the breaker opening one failure late.
ThresholdReachedLate(failures, maxFailures) == failures > maxFailures

\* this.failures >= this.maxFailures
ThresholdReached(failures, maxFailures) == failures >= maxFailures

\* recordSuccess leaving the failure counter as it is.
RecordSuccessKeepsCount(b, profit) ==
    [b EXCEPT !.totalProfit = @ + profit, !.state = "CLOSED"]

\* recordSuccess(profit): the object afterwards.
RecordSuccess(b, profit) ==
    [b EXCEPT !.totalProfit = @ + profit, !.failures = 0, !.state = "CLOSED"]

\* recordFailure(error): the object afterwards; it returns ThresholdReached of the
\* new counter.
RecordFailure(b, t) ==
    [b EXCEPT !.failures = @ + 1,
              !.lastFailureTime = t,
              !.state = IF ThresholdReached(b.failures + 1, b.maxFailures) THEN "OPEN" ELSE @]

\* Date.now() - this.lastFailureTime, null counting as 0.
SinceFailure(b, t) == IF b.lastFailureTime = Null THEN t ELSE t - b.lastFailureTime

\* shouldAllowRequest(): what it returns and the object afterwards.
ShouldAllowRequest(b, t) ==
    IF b.state = "CLOSED" THEN [ret |-> TRUE, b |-> b]
    ELSE IF b.state = "OPEN"
    THEN IF SinceFailure(b, t) > b.resetTimeout
         THEN [ret |-> TRUE, b |-> [b EXCEPT !.state = "HALF_OPEN", !.failures = 0]]
         ELSE [ret |-> FALSE, b |-> b]
    ELSE IF b.state = "HALF_OPEN" THEN [ret |-> TRUE, b |-> b]
    ELSE [ret |-> FALSE, b |-> b]

\* ------------------------------------------------------------ bot loop
\* The head of the loop: the breaker is asked; refused, the bot sleeps and asks again.
BotCheck ==
    /\ botPc = "check"
    /\ LET r == ShouldAllowRequest(breaker, now) IN
         /\ breaker' = r.b
         /\ botPc' = IF r.ret THEN "scan" ELSE "paused"
    /\ UNCHANGED now

\* sleep(10000) is over; continue.
BotPaused ==
    /\ botPc = "paused"
    /\ botPc' = "check"
    /\ UNCHANGED <<breaker, now>>

\* An execution inside scanForOpportunities records a success.
ScanRecordSuccess ==
    /\ botPc = "scan"
    /\ breaker' = RecordSuccess(breaker, 0)
    /\ breaker' # breaker
    /\ UNCHANGED <<now, botPc>>

\* An execution inside scanForOpportunities records a failure; what recordFailure
\* returns is not looked at there.
ScanRecordFailure ==
    /\ botPc = "scan"
    /\ breaker.failures < MaxRecorded
    /\ breaker' = RecordFailure(breaker, now)
    /\ UNCHANGED <<now, botPc>>

\* scanForOpportunities returns.
ScanReturn ==
    /\ botPc = "scan"
    /\ botPc' = "sleep"
    /\ UNCHANGED <<breaker, now>>

\* scanForOpportunities throws: the catch of start records the failure and ends the
\* process when recordFailure returns true.
ScanThrow ==
    /\ botPc = "scan"
    /\ breaker.failures < MaxRecorded
    /\ breaker' = RecordFailure(breaker, now)
    /\ botPc' = IF ThresholdReached(breaker.failures + 1, breaker.maxFailures)
                THEN "exited" ELSE "sleep"
    /\ UNCHANGED now

\* sleep(2000) is over; the loop goes round.
BotSleep ==
    /\ botPc = "sleep"
    /\ botPc' = "check"
    /\ UNCHANGED <<breaker, now>>

\* Time passes while the process lives.
Tick ==
    /\ botPc # "exited"
    /\ now < MaxTime
    /\ now' = now + 1
    /\ UNCHANGED <<breaker, botPc>>

\* The breaker's methods called in any order, as any holder of the object may.
BreakerRecordSuccess ==
    /\ breaker' = RecordSuccess(breaker, 0)
    /\ UNCHANGED <<now, botPc>>

BreakerRecordFailure ==
    /\ breaker.failures < MaxRecorded
    /\ breaker' = RecordFailure(breaker, now)
    /\ UNCHANGED <<now, botPc>>

BreakerShouldAllowRequest ==
    /\ breaker' = ShouldAllowRequest(breaker, now).b
    /\ UNCHANGED <<now, botPc>>

\* The bot constructed with the environment's settings.
BotInitWith(maxFailures, resetTimeout) ==
    /\ breaker = NewCircuitBreaker(maxFailures, resetTimeout)
    /\ now = 0
    /\ botPc = "check"

BotInit == \E m \in MaxFailuresOptions, r \in ResetTimeoutOptions : BotInitWith(m, r)

\* ---------------------------------------------------- execution attempt
\* scanRealOpportunities, executeArbitrageReal, executeFlashLoanArbitrage and the
\* executeViaMempool the class ends up with: of the two methods of that name the
\* later one (the plain broadcast) replaces the earlier one (the bundle body), and
\* no method named executeViaFlashbots exists.  USE_FLASH_LOAN and DRY_RUN are at
\* their defaults.
MsPerTick == 1500                    \* milliseconds one clock tick stands for
StaleBound == 3000
GasLimit == 800000
SignificandBits == 20                \* a double's 53, with the amounts scaled down alike
GasPrices == {1, 2}                  \* feeData.maxFeePerGas || feeData.gasPrice
NoGasPrice == 0                      \* both null
Profits == {1599999, 4000000}        \* opportunity.profit

NoAttempt ==
    [pc |-> "idle", profit |-> 0, path |-> "none", ageMs |-> Null, gasPrice |-> NoGasPrice,
     simulated |-> FALSE, submitted |-> FALSE, outcome |-> "none"]

\* Opportunity lists a scan can come back with, all discovered at time t.
OppLists(t) ==
    UNION {[1..n -> {[timestamp |-> t, profit |-> p] : p \in Profits}] : n \in 0..MaxOpps}

\* Date.now() - (opportunity.timestamp || Date.now()); the scanners stamp every
\* opportunity with Date.now(), so the default never applies.
AgeMs(opp, t) == (t - opp.timestamp) * MsPerTick

\* Mutant: the age check gone.
IsStaleNever(ageMs) == FALSE

\* ageMs > 3000
IsStale(ageMs) == ageMs > StaleBound

RECURSIVE DroppedBits(_)
\* Low bits of x a double's significand has no room for.
DroppedBits(x) == IF x < 2^SignificandBits THEN 0 ELSE 1 + DroppedBits(x \div 2)

\* parseFloat(ethers.formatEther(x)), in wei: x rounded to the nearest double, ties
\* to the even significand.
ParseFloat(x) ==
    LET u == 2^DroppedBits(x)
        m == x \div u
        r == x % u
    IN  IF 2 * r < u THEN m * u
        ELSE IF 2 * r > u THEN (m + 1) * u
        ELSE (IF m % 2 = 0 THEN m ELSE m + 1) * u

\* parseFloat(gasCostEth) > parseFloat(formatEther(opportunity.profit)) * 0.5
FeeTooHigh(gasPrice, profit) == 2 * ParseFloat(gasPrice * GasLimit) > ParseFloat(profit)

\* Mutant: a receipt handled although the race is over.
RaceOpenAlways(late) == TRUE

\* Promise.race: the receipt counts only while the race has not been settled.
RaceOpen(late) == ~late

\* The attempt is over: finally releases the lock and the for loop goes on.
EndAttempt(outcome) == [att EXCEPT !.pc = "idle", !.outcome = outcome]

\* scanAll / scanAllV3 / filterProfitable have come back with the cycle's list.
ScanFind ==
    /\ botPc = "scan"
    /\ \E list \in OppLists(now) : queue' = list
    /\ botPc' = "loop"
    /\ UNCHANGED <<breaker, now, env, att, stats, tx>>

\* for (const opp of profitable) await this.executeArbitrageReal(opp), up to the first
\* await after the lock: got is whether acquire returned a token.  With a
\* flashbotsProvider executeFlashLoanArbitrage calls the missing executeViaFlashbots,
\* which throws a TypeError that the catch of executeArbitrageReal records; without
\* one, executeViaMempool runs its age check.
ExecuteArbitrageReal(got) ==
    /\ botPc = "loop"
    /\ att.pc = "idle"
    /\ queue # <<>>
    /\ breaker.failures < MaxRecorded
    /\ queue' = Tail(queue)
    /\ LET opp == Head(queue)
           ageMs == AgeMs(opp, now)
           begun == [NoAttempt EXCEPT !.profit = opp.profit]
       IN  IF ~got
           THEN /\ att' = [begun EXCEPT !.outcome = "lockBusy"]
                /\ UNCHANGED breaker
           ELSE IF env.flashbots
           THEN /\ att' = [begun EXCEPT !.path = "private", !.ageMs = ageMs,
                                        !.outcome = "noSuchMethod"]
                /\ breaker' = RecordFailure(breaker, now)
           ELSE /\ att' = IF IsStale(ageMs)
                          THEN [begun EXCEPT !.path = "public", !.ageMs = ageMs,
                                             !.outcome = "stale"]
                          ELSE [begun EXCEPT !.path = "public", !.ageMs = ageMs,
                                             !.pc = "feeData"]
                /\ UNCHANGED breaker
    /\ UNCHANGED <<now, botPc, env, stats, tx>>

\* provider.getFeeData() has answered; with no gas price in the answer the
\* multiplication throws and the catch of executeArbitrageReal records it.
FeeGate(gasPrice) ==
    /\ att.pc = "feeData"
    /\ IF gasPrice = NoGasPrice
       THEN /\ att' = EndAttempt("threw")
            /\ breaker' = RecordFailure(breaker, now)
       ELSE /\ att' = IF FeeTooHigh(gasPrice, att.profit)
                      THEN [EndAttempt("feeTooHigh") EXCEPT !.gasPrice = gasPrice]
                      ELSE [att EXCEPT !.pc = "simulate", !.gasPrice = gasPrice]
            /\ UNCHANGED breaker
    /\ UNCHANGED <<now, botPc, env, queue, stats, tx>>

\* flashArbitrage.staticCall(...) has answered.
Simulate(ok) ==
    /\ att.pc = "simulate"
    /\ IF ok
       THEN /\ att' = [att EXCEPT !.pc = "send", !.simulated = TRUE]
            /\ UNCHANGED breaker
       ELSE /\ att' = EndAttempt("simFailed")
            /\ breaker' = RecordFailure(breaker, now)
    /\ UNCHANGED <<now, botPc, env, queue, stats, tx>>

\* contractWithSigner.flashArbitrage(...): broadcast, or the call throws.
Send(ok) ==
    /\ att.pc = "send"
    /\ IF ok
       THEN /\ att' = [att EXCEPT !.pc = "waiting", !.submitted = TRUE]
            /\ tx' = [tx EXCEPT !.state = "pending"]
            /\ UNCHANGED breaker
       ELSE /\ att' = EndAttempt("sendError")
            /\ breaker' = RecordFailure(breaker, now)
            /\ UNCHANGED tx
    /\ UNCHANGED <<now, botPc, env, queue, stats>>

\* A broadcast transaction is mined with the given status: the one the attempt is
\* waiting for, or (late) one whose wait has timed out.
Receipt(late, status) ==
    /\ IF late THEN tx.late = "pending" ELSE att.pc = "waiting" /\ tx.state = "pending"
    /\ stats.executed < MaxExecuted
    /\ tx' = IF late THEN [tx EXCEPT !.late = IF status = 1 THEN "mined" ELSE "reverted"]
             ELSE [tx EXCEPT !.state = "none"]
    /\ IF RaceOpen(late)
       THEN IF status = 1
            THEN /\ stats' = [stats EXCEPT !.executed = @ + 1]
                 /\ breaker' = RecordSuccess(breaker, 0)
                 /\ att' = EndAttempt("success")
            ELSE /\ breaker' = RecordFailure(breaker, now)
                 /\ att' = EndAttempt("reverted")
                 /\ UNCHANGED stats
       ELSE UNCHANGED <<stats, breaker, att>>
    /\ UNCHANGED <<now, botPc, env, queue>>

\* The 60000 ms timer of the race fires first: the rejection lands in the catch,
\* which records a failure; the transaction stays in flight.
Timeout ==
    /\ att.pc = "waiting"
    /\ tx.state = "pending"
    /\ att' = EndAttempt("timeout")
    /\ breaker' = RecordFailure(breaker, now)
    /\ tx' = [state |-> "none", late |-> "pending"]
    /\ UNCHANGED <<now, botPc, env, queue, stats>>

\* The for loop is through; scanForOpportunities returns and the attempt's locals
\* are gone.
LoopDone ==
    /\ botPc = "loop"
    /\ att.pc = "idle"
    /\ queue = <<>>
    /\ botPc' = "sleep"
    /\ att' = NoAttempt
    /\ UNCHANGED <<breaker, now, env, queue, stats, tx>>

\* Nothing found yet, nothing in hand.
ExecIdle ==
    /\ queue = <<>>
    /\ att = NoAttempt
    /\ stats = [executed |-> 0]
    /\ tx = [state |-> "none", late |-> "none"]

\* ------------------------------------------------- slippage calculator
\* Amounts travel as decimal strings and are computed as BigInt: exact integers,
\* division truncating.
SlippageOptions == {1, 2}            \* whole percents given to the constructor or setSlippage
SwapFeeBasisPoints == 30
Snapshots ==
    {[reserve0A |-> 100, reserve1A |-> 1000, reserve0B |-> 1000, reserve1B |-> 100, profit |-> 400],
     [reserve0A |-> 100, reserve1A |-> 100, reserve0B |-> 100, reserve1B |-> 100, profit |-> 1],
     [reserve0A |-> 1000, reserve1A |-> 50, reserve0B |-> 50, reserve1B |-> 1000, profit |-> 0]}
LoanAmounts == {1, 10, 20}
Principals == {0, 1999, 2000, 4000}
MinOutputs == {0, 1998, 1999, 2000, 2001, 2002, 4001, 4002, 4003}
ReservesIn == (0..10) \cup {98, 99, 100, 197, 198}
ImpactPercents == {1, 2, 50, 99}

NoCallYet == [fn |-> "none", args |-> <<>>, bp |-> 0, ret |-> <<>>]

\* new SlippageCalculator(slippagePercentage)
NewSlippageCalculator(slippagePercentage) ==
    [slippageBasisPoints |-> slippagePercentage * 100, cur |-> NoCallYet, prev |-> NoCallYet]

\* calculateMinAmountOut on a calculator whose slippageBasisPoints is bp.
CalculateMinAmountOut(bp, amountIn, reserve0, reserve1, token0In, feeBasisPoints) ==
    LET feeMultiplier == 10000 - feeBasisPoints
        feeDivisor == 10000
        reserveIn == IF token0In THEN reserve0 ELSE reserve1
        reserveOut == IF token0In THEN reserve1 ELSE reserve0
        amountInWithFee == amountIn * feeMultiplier
        numerator == amountInWithFee * reserveOut
        denominator == (reserveIn * feeDivisor) + amountInWithFee
        expectedOut == numerator \div denominator
        slippageMultiplier == 10000 - bp
    IN  (expectedOut * slippageMultiplier) \div 10000

\* calculateArbitrageSlippage
CalculateArbitrageSlippage(bp, opportunity, flashLoanAmount) ==
    LET minAmountOut1 ==
            CalculateMinAmountOut(bp, flashLoanAmount, opportunity.reserve0A,
                                  opportunity.reserve1A, TRUE, SwapFeeBasisPoints)
        minAmountOut2 ==
            CalculateMinAmountOut(bp, minAmountOut1, opportunity.reserve0B,
                                  opportunity.reserve1B, FALSE, SwapFeeBasisPoints)
    IN  [minAmountOut1 |-> minAmountOut1, minAmountOut2 |-> minAmountOut2,
         expectedProfit |-> opportunity.profit]

\* Mutant: break-even counted as profitable.
IsProfitableOnBreakEven(flashLoanAmount, minAmountOut2) ==
    minAmountOut2 >= flashLoanAmount + ((flashLoanAmount * 5) \div 10000)

\* isProfitableWithSlippage
IsProfitableWithSlippage(flashLoanAmount, minAmountOut2) ==
    LET amountBorrowed == flashLoanAmount
        premium == (amountBorrowed * 5) \div 10000
        amountOwed == amountBorrowed + premium
        minOutput == minAmountOut2
    IN  minOutput > amountOwed

\* Mutant: the divisor without the impact taken off.
ImpactDivisorFlat(maxPriceImpactPercent) == 10000

\* 10000 - maxPriceImpactPercent * 100
ImpactDivisor(maxPriceImpactPercent) == 10000 - maxPriceImpactPercent * 100

\* calculateSafeFlashLoanAmount
CalculateSafeFlashLoanAmount(reserve0, reserve1, maxPriceImpactPercent) ==
    LET impactBasisPoints == maxPriceImpactPercent * 100
    IN  (reserve0 * impactBasisPoints) \div ImpactDivisor(maxPriceImpactPercent)

\* Mutant: a calculator whose answer depends on the call before.
GetProtectedParametersDrifting(bp, opportunity, flashLoanAmount) ==
    LET sl == CalculateArbitrageSlippage(bp, opportunity, flashLoanAmount)
        drift == IF calc.cur.fn = "getProtectedParameters" THEN 1 ELSE 0
    IN  [minAmountOut1 |-> sl.minAmountOut1 + drift, minAmountOut2 |-> sl.minAmountOut2,
         expectedProfit |-> sl.expectedProfit,
         isProfitable |-> IsProfitableWithSlippage(flashLoanAmount, sl.minAmountOut2),
         slippagePercent |-> bp \div 100, flashLoanAmount |-> flashLoanAmount]

\* getProtectedParameters
GetProtectedParameters(bp, opportunity, flashLoanAmount) ==
    LET sl == CalculateArbitrageSlippage(bp, opportunity, flashLoanAmount)
    IN  [minAmountOut1 |-> sl.minAmountOut1, minAmountOut2 |-> sl.minAmountOut2,
         expectedProfit |-> sl.expectedProfit,
         isProfitable |-> IsProfitableWithSlippage(flashLoanAmount, sl.minAmountOut2),
         slippagePercent |-> bp \div 100, flashLoanAmount |-> flashLoanAmount]

\* A call on the calculator, kept with the tolerance it ran under.
Called(fn, args, ret) ==
    [calc EXCEPT !.prev = calc.cur,
                 !.cur = [fn |-> fn, args |-> args, bp |-> calc.slippageBasisPoints, ret |-> ret]]

CallGetProtectedParameters(opportunity, flashLoanAmount) ==
    calc' = Called("getProtectedParameters", <<opportunity, flashLoanAmount>>,
                   GetProtectedParameters(calc.slippageBasisPoints, opportunity, flashLoanAmount))

CallIsProfitableWithSlippage(flashLoanAmount, minAmountOut2) ==
    calc' = Called("isProfitableWithSlippage", <<flashLoanAmount, minAmountOut2>>,
                   IsProfitableWithSlippage(flashLoanAmount, minAmountOut2))

CallCalculateSafeFlashLoanAmount(reserve0, reserve1, maxPriceImpactPercent) ==
    calc' = Called("calculateSafeFlashLoanAmount", <<reserve0, reserve1, maxPriceImpactPercent>>,
                   CalculateSafeFlashLoanAmount(reserve0, reserve1, maxPriceImpactPercent))

\* setSlippage(percentage)
SetSlippage(percentage) ==
    /\ calc.slippageBasisPoints # percentage * 100
    /\ calc' = [Called("setSlippage", <<percentage>>, <<>>)
                  EXCEPT !.slippageBasisPoints = percentage * 100]

\* ------------------------------------------------------- hunt-and-kill
\* scripts/hunt-and-kill.js with CONTRACT_ADDRESS and OPERATOR_PRIVATE_KEY set.
TargetBlocks == 3                    \* for (let i = 1; i <= 3; i++)
SimResults == {"ok", "error", "threw"}

\* The script started with the given flags; provider is whether
\* createFlashbotsProvider() succeeded.
HuntStart(useFlashbots, dryRun, provider) ==
    [useFlashbots |-> useFlashbots, dryRun |-> dryRun, provider |-> provider,
     pc |-> "scan", scans |-> 0, i |-> 0, sim |-> "none", sent |-> <<>>, exit |-> Null]

HuntExit(code) == [hunt EXCEPT !.pc = "exited", !.exit = code]

\* scanOnce: nothing profitable (sleep 500 ms and scan again) or an opportunity.
HuntScan(found) ==
    /\ hunt.pc = "scan"
    /\ hunt.scans < MaxScans
    /\ hunt' = [hunt EXCEPT !.scans = @ + 1, !.pc = IF found THEN "found" ELSE "scan"]

\* The transaction is built; a dry run simulates at most and exits, without
\* --flashbots the signed transaction is printed and not broadcast.
HuntPrepare(res) ==
    /\ hunt.pc = "found"
    /\ hunt' = IF hunt.dryRun
               THEN [HuntExit(0) EXCEPT !.sim = IF hunt.provider THEN res ELSE "none"]
               ELSE IF hunt.useFlashbots
               THEN [hunt EXCEPT !.pc = "simulate", !.i = 1]
               ELSE HuntExit(0)

\* flashbotsProvider.simulate(bundle, target): its error is logged, its throw is
\* caught and logged; either way the loop body goes on.
HuntSimulate(res) ==
    /\ hunt.pc = "simulate"
    /\ hunt' = [hunt EXCEPT !.pc = "send",
                            !.sim = IF hunt.provider THEN res ELSE "threw"]

\* flashbotsProvider.sendBundle(bundle, target); without a provider, or when the
\* relay call fails, the throw ends the script.
HuntSend(ok) ==
    /\ hunt.pc = "send"
    /\ hunt' = IF hunt.provider /\ ok
               THEN [hunt EXCEPT !.pc = "wait",
                                 !.sent = Append(@, [target |-> hunt.i, sim |-> hunt.sim])]
               ELSE HuntExit(2)

\* sendRes.wait(): 0 is taken as not included and the next block is tried.
HuntWait(waitRes) ==
    /\ hunt.pc = "wait"
    /\ hunt' = IF waitRes = 0
               THEN IF hunt.i < TargetBlocks
                    THEN [hunt EXCEPT !.pc = "simulate", !.i = @ + 1]
                    ELSE HuntExit(1)
               ELSE HuntExit(0)

\* ----------------------------------------------------------------- scanner
\* UniswapScanner (lib/uniswap-scanner.js).  An entry of the pair table is the label and
\* the dex its key '<token>-<token>-<dex>' is made of, and what the pair contract
\* answers to token0() and getReserves(); a contract that cannot be read makes
\* getReserves throw.  token1 is the other token of the pair.
Weth == "WETH"
Usdc == "USDC"
Dai == "DAI"

PairEntries == {
    [label |-> <<Weth, Usdc>>, dex |-> "uniswap", token0 |-> Weth,
     reserve0 |-> 1000, reserve1 |-> 50, readable |-> TRUE],
    [label |-> <<Weth, Usdc>>, dex |-> "sushiswap", token0 |-> Weth,
     reserve0 |-> 50, reserve1 |-> 1000, readable |-> TRUE],
    [label |-> <<Usdc, Weth>>, dex |-> "shibaswap", token0 |-> Usdc,
     reserve0 |-> 50, reserve1 |-> 1000, readable |-> TRUE],
    [label |-> <<Weth, Usdc>>, dex |-> "shibaswap", token0 |-> Weth,
     reserve0 |-> 1000, reserve1 |-> 100, readable |-> TRUE],
    [label |-> <<Weth, Usdc>>, dex |-> "uniswap", token0 |-> Weth,
     reserve0 |-> 5, reserve1 |-> 50, readable |-> TRUE],
    [label |-> <<Weth, Usdc>>, dex |-> "uniswap", token0 |-> Weth,
     reserve0 |-> 50, reserve1 |-> 1000, readable |-> TRUE],
    [label |-> <<Weth, Dai>>, dex |-> "sushiswap", token0 |-> Weth,
     reserve0 |-> 50, reserve1 |-> 1000, readable |-> TRUE],
    [label |-> <<Weth, Usdc>>, dex |-> "uniswap", token0 |-> Weth,
     reserve0 |-> 1000, reserve1 |-> 50, readable |-> FALSE] }

ScanAmounts == {1, 10, 1000}
QuoteAmounts == {0, 1, 10, 1000}
QuoteReserves == {1, 50, 500, 1000}

\* The keys of an object are distinct: no two entries share label and dex.
PairTables ==
    {s \in [1..MaxPairs -> PairEntries] :
        \A i, j \in 1..MaxPairs :
            (s[i].label = s[j].label /\ s[i].dex = s[j].dex) => i = j}

NoScanCall == [fn |-> "none", args |-> <<>>, evaluated |-> <<>>, ret |-> <<>>]

\* new UniswapScanner(provider, network): the network's pair table.
NewUniswapScanner(pairs) == [pairs |-> pairs, cur |-> NoScanCall]

\* The order String.prototype sort puts the token symbols in.
SymbolRank(symbol) == IF symbol = Dai THEN 1 ELSE IF symbol = Usdc THEN 2 ELSE 3

\* key.split('-').slice(0, 2).sort().join('')
SortedTokens(label) ==
    IF SymbolRank(label[1]) <= SymbolRank(label[2]) THEN <<label[1], label[2]>>
    ELSE <<label[2], label[1]>>

Token1(entry) == IF entry.token0 = entry.label[1] THEN entry.label[2] ELSE entry.label[1]

\* calculateAmountOut without the 0.3% fee.
CalculateAmountOutNoFee(amountIn, reserveIn, reserveOut) ==
    (amountIn * 1000 * reserveOut) \div ((reserveIn * 1000) + amountIn * 1000)

\* calculateAmountOut: BigInt arithmetic, the division truncates.
CalculateAmountOut(amountIn, reserveIn, reserveOut) ==
    LET amountInWithFee == amountIn * 997
        numerator == amountInWithFee * reserveOut
        denominator == (reserveIn * 1000) + amountInWithFee
    IN  numerator \div denominator

\* The second pair read with its reserves the wrong way round.
IsToken0_2Wrong(reserves2, tokenOut) == reserves2.token0 # tokenOut

\* isToken0_2: whether the second pair's token0 is the token the first hop gave.
IsToken0_2(reserves2, tokenOut) == reserves2.token0 = tokenOut

\* findArbitrage(pair1Address, pair2Address, tokenIn, amountIn); a pair's address is
\* its place in the table.  The result carries no timestamp here.
FindArbitrage(pairs, pair1, pair2, tokenIn, amountIn) ==
    LET reserves1 == pairs[pair1]
        reserves2 == pairs[pair2]
    IN  IF ~reserves1.readable \/ ~reserves2.readable
        THEN [profitable |-> FALSE, profit |-> 0]
        ELSE
            LET isToken0_1 == reserves1.token0 = tokenIn
                reserveIn1 == IF isToken0_1 THEN reserves1.reserve0 ELSE reserves1.reserve1
                reserveOut1 == IF isToken0_1 THEN reserves1.reserve1 ELSE reserves1.reserve0
                tokenOut == IF isToken0_1 THEN Token1(reserves1) ELSE reserves1.token0
                isToken0_2 == IsToken0_2(reserves2, tokenOut)
                reserveIn2 == IF isToken0_2 THEN reserves2.reserve0 ELSE reserves2.reserve1
                reserveOut2 == IF isToken0_2 THEN reserves2.reserve1 ELSE reserves2.reserve0
                amountOut1 == CalculateAmountOut(amountIn, reserveIn1, reserveOut1)
                amountOut2 == CalculateAmountOut(amountOut1, reserveIn2, reserveOut2)
                profit == IF amountOut2 > amountIn THEN amountOut2 - amountIn ELSE 0
            IN  [profitable |-> profit > 0,
                 profit |-> profit,
                 amountIn |-> amountIn,
                 amountOut |-> amountOut2,
                 path |-> <<tokenIn, tokenOut>>,
                 pathReverse |-> <<tokenOut, tokenIn>>,
                 pair1 |-> pair1,
                 pair2 |-> pair2]

\* A comparator that puts the smaller profit first.
CompareAscending(a, b) == IF b.profit < a.profit THEN 1 ELSE -1

\* The comparator scanAll sorts with.
Compare(a, b) == IF b.profit > a.profit THEN 1 ELSE -1

\* Array.prototype.sort on a short array is a binary insertion sort: the place of
\* pivot in the sorted run s[left .. right - 1].
RECURSIVE InsertionPoint(_, _, _, _)
InsertionPoint(s, pivot, left, right) ==
    IF left >= right THEN left
    ELSE LET mid == left + ((right - left) \div 2)
         IN  IF Compare(pivot, s[mid]) < 0
             THEN InsertionPoint(s, pivot, left, mid)
             ELSE InsertionPoint(s, pivot, mid + 1, right)

RECURSIVE SortFirst(_, _)
SortFirst(s, n) ==
    IF n = 0 THEN <<>>
    ELSE LET run == SortFirst(s, n - 1)
             at == InsertionPoint(run, s[n], 1, n)
         IN  SubSeq(run, 1, at - 1) \o <<s[n]>> \o SubSeq(run, at, n - 1)

Sort(s) == SortFirst(s, Len(s))

\* The pairs of indices scanAll's two loops go through, in their order.
IndexPairs(n) ==
    SelectSeq([k \in 1..(n * n) |-> <<((k - 1) \div n) + 1, ((k - 1) % n) + 1>>],
              LAMBDA ij : ij[1] < ij[2])

\* Only the same token pair on different dexes is compared.
Comparable(pair1, pair2) ==
    /\ SortedTokens(pair1.label) = SortedTokens(pair2.label)
    /\ pair1.dex # pair2.dex

\* What findArbitrage returned for each comparison scanAll made, in loop order.
Evaluated(pairs, tokenIn, amountIn) ==
    LET compared == SelectSeq(IndexPairs(Len(pairs)),
                              LAMBDA ij : Comparable(pairs[ij[1]], pairs[ij[2]]))
    IN  [k \in 1..Len(compared) |->
            FindArbitrage(pairs, compared[k][1], compared[k][2], tokenIn, amountIn)]

\* scanAll(tokenIn, amountIn).
ScanAll(pairs, tokenIn, amountIn) ==
    LET found == SelectSeq(Evaluated(pairs, tokenIn, amountIn), LAMBDA r : r.profitable)
        opportunities ==
            [k \in 1..Len(found) |->
                [profit |-> found[k].profit,
                 amountIn |-> found[k].amountIn,
                 amountOut |-> found[k].amountOut,
                 path |-> found[k].path,
                 pathReverse |-> found[k].pathReverse,
                 pair1 |-> found[k].pair1,
                 pair2 |-> found[k].pair2,
                 dex1 |-> pairs[found[k].pair1].dex,
                 dex2 |-> pairs[found[k].pair2].dex,
                 pairName |-> pairs[found[k].pair1].label,
                 token0 |-> pairs[found[k].pair1].token0]]
    IN  Sort(opportunities)

CallCalculateAmountOut(amountIn, reserveIn, reserveOut) ==
    scan' = [scan EXCEPT !.cur =
                [fn |-> "calculateAmountOut",
                 args |-> <<amountIn, reserveIn, reserveOut>>,
                 evaluated |-> <<>>,
                 ret |-> CalculateAmountOut(amountIn, reserveIn, reserveOut)]]

CallScanAll(tokenIn, amountIn) ==
    scan' = [scan EXCEPT !.cur =
                [fn |-> "scanAll",
                 args |-> <<tokenIn, amountIn>>,
                 evaluated |-> Evaluated(scan.pairs, tokenIn, amountIn),
                 ret |-> ScanAll(scan.pairs, tokenIn, amountIn)]]

\* A scanner of a network with no known pairs, never called.
ScanAtRest == scan = NewUniswapScanner(<<>>)

\* ------------------------------------------------------- lease and attempt
\* executeArbitrageReal in two bot processes against one reachable Redis.  The key
\* is set with PX ttl and is gone once ttl ms have passed; an attempt is in flight
\* from the acquire until its confirmation wait has settled or timed out.
BotProcs == {"b1", "b2"}
LeaseTtl == 15000
ConfirmTimeout == 60000
ClockSteps == {5000, 15000, 40000}

NoKey == [token |-> 0, expiresAt |-> 0]
NoFlight == [pc |-> "idle", token |-> 0, since |-> 0]
NoLeaseCall == [proc |-> "none", op |-> "none", ret |-> 0]

\* The value GET returns at time t: the token, or 0 (nil) for an absent or expired key.
KeyAt(key, t) == IF key.token # 0 /\ t < key.expiresAt THEN key.token ELSE 0

\* lock.release(key, token): the script deletes the key only if it still holds the token.
ReleasedKey(key, token, t) == IF KeyAt(key, t) = token THEN NoKey ELSE key

\* executeArbitrageReal up to the confirmation wait: lock.acquire('arb_lock', 15000)
\* is SET key token PX 15000 NX; without the token the call returns at once.
AttemptBegin(p) ==
    /\ lease.procs[p].pc = "idle"
    /\ IF KeyAt(lease.key, lease.clock) # 0
       THEN lease' = [lease EXCEPT !.last = [proc |-> p, op |-> "acquire", ret |-> 0]]
       ELSE /\ lease.nextToken <= MaxAttempts
            /\ lease' = [lease EXCEPT
                             !.key = [token |-> lease.nextToken,
                                      expiresAt |-> lease.clock + LeaseTtl],
                             !.procs[p] = [pc |-> "inFlight", token |-> lease.nextToken,
                                           since |-> lease.clock],
                             !.nextToken = @ + 1,
                             !.last = [proc |-> p, op |-> "acquire", ret |-> lease.nextToken]]

\* The attempt settles before the timeout (a receipt, a revert, or an earlier
\* return or throw); the finally block releases the lock.
AttemptSettle(p) ==
    /\ lease.procs[p].pc = "inFlight"
    /\ lease.clock - lease.procs[p].since < ConfirmTimeout
    /\ lease' = [lease EXCEPT
                    !.key = ReleasedKey(lease.key, lease.procs[p].token, lease.clock),
                    !.procs[p] = NoFlight,
                    !.last = [proc |-> p, op |-> "release",
                              ret |-> IF KeyAt(lease.key, lease.clock) = lease.procs[p].token
                                      THEN 1 ELSE 0]]

\* The confirmation wait times out after 60000 ms; the finally block releases the lock.
AttemptTimeout(p) ==
    /\ lease.procs[p].pc = "inFlight"
    /\ lease.clock - lease.procs[p].since >= ConfirmTimeout
    /\ lease' = [lease EXCEPT
                    !.key = ReleasedKey(lease.key, lease.procs[p].token, lease.clock),
                    !.procs[p] = NoFlight,
                    !.last = [proc |-> p, op |-> "timeout",
                              ret |-> IF KeyAt(lease.key, lease.clock) = lease.procs[p].token
                                      THEN 1 ELSE 0]]

\* Time passes, never beyond the moment a pending wait times out.
ClockAdvance(d) ==
    /\ lease.clock + d <= MaxClockMs
    /\ \A p \in BotProcs :
          lease.procs[p].pc = "inFlight" =>
              lease.clock + d - lease.procs[p].since <= ConfirmTimeout
    /\ lease' = [lease EXCEPT !.clock = @ + d]

\* Both processes idle, the key absent.
LeaseStart ==
    [clock |-> 0, key |-> NoKey, procs |-> [p \in BotProcs |-> NoFlight],
     nextToken |-> 1, last |-> NoLeaseCall]

LeaseAtRest == lease = LeaseStart

\* The script not started.
HuntAtRest == hunt = HuntStart(FALSE, FALSE, FALSE)

\* No attempt made, the calculator as the bot builds it, the script not started.
ExecAtRest == env = [flashbots |-> FALSE] /\ ExecIdle

CalcAtRest == calc = NewSlippageCalculator(2)

ToolsAtRest == ExecAtRest /\ CalcAtRest /\ HuntAtRest /\ ScanAtRest /\ LeaseAtRest

\* ---------------------------------------------------------- deployment
AavePools == {Zero, Pool}
RouterConfigs == {<<R1, R2>>, <<R2, R1>>, <<Zero, R2>>}
PoolConfigs == {<<Zero, Zero, Zero>>, <<PAB, PBA, TA>>}

\* The state after construction.  Two deployments of the repository: the test
\* fixture (mock lender and routers, legacy pools not configured) and the mock
\* setup (pools configured, holding their reserves, the contract seeded).
Init ==
    /\ aavePool = Pool
    /\ router1 = R1
    /\ router2 = R2
    /\ paused = FALSE
    /\ entered = FALSE
    /\ inFlashLoan = FALSE
    /\ totalProfits = 0
    /\ ethBalance = 0
    /\ allow = NoAllow
    /\ \/ /\ poolAB = Zero
          /\ poolBA = Zero
          /\ tokenA = Zero
          /\ reserves = NoReserves
          /\ bal = NoBal
       \/ /\ poolAB = PAB
          /\ poolBA = PBA
          /\ tokenA = TA
          /\ \E ra \in {SeedReserves}, rb \in {SeedReserves}, seed \in FundAmounts :
               /\ reserves = [p \in Amms |-> IF p = PAB THEN ra ELSE rb]
               /\ bal = [h \in Holders |->
                           IF h = Self THEN [t \in Tokens |-> IF t = TA THEN seed ELSE 0]
                           ELSE IF h = PAB THEN [t \in Tokens |-> IF t = TA THEN ra[1] ELSE ra[2]]
                           ELSE [t \in Tokens |-> IF t = TB THEN rb[1] ELSE rb[2]]]
    /\ pc = "idle"
    /\ frame = "none"
    /\ call = NoCall
    /\ cb = NoCb
    /\ pre = NoSnapshot
    /\ last = Outcome("constructor", Owner, "ok", "", NoArg)
    /\ txCount = 0
    /\ LockInit
    /\ BotInitWith(0, 0)
    /\ ToolsAtRest

\* A step of the contract leaves the off-chain components alone.
OffChainAtRest == UNCHANGED <<lockvars, botvars, execvars, calc, hunt, scan, lease>>

Next ==
    \/ \E c \in Callers, pcfg \in PoolConfigs :
          ConfigurePools(c, pcfg[1], pcfg[2], pcfg[3]) /\ OffChainAtRest
    \/ \E c \in Callers, p \in AavePools : SetAavePool(c, p) /\ OffChainAtRest
    \/ \E c \in Callers, r \in RouterConfigs : SetRouters(c, r[1], r[2]) /\ OffChainAtRest
    \/ \E c \in Callers : EmergencyPause(c) /\ OffChainAtRest
    \/ \E c \in Callers : EmergencyUnpause(c) /\ OffChainAtRest
    \/ \E c \in Callers, a \in ProfitAmounts : RecordProfit(c, a) /\ OffChainAtRest
    \/ \E c \in Callers, t \in Tokens, to \in {Zero, Owner}, a \in WithdrawAmounts :
          WithdrawToken(c, t, to, a) /\ OffChainAtRest
    \/ \E c \in Callers, to \in {Zero, Owner}, a \in WithdrawAmounts :
          Withdraw(c, to, a) /\ OffChainAtRest
    \/ \E c \in Callers, a \in FundAmounts : Receive(c, a) /\ OffChainAtRest
    \/ \E c \in Callers, t \in Tokens, a \in FundAmounts : FundToken(c, t, a) /\ OffChainAtRest
    \/ \E c \in Callers, p \in Amms, r \in ReserveConfigs :
          SetReserves(c, p, r) /\ OffChainAtRest
    \/ \E c \in Callers, a \in AmmAmounts : ExecuteArbitrage(c, a) /\ OffChainAtRest
    \/ \E c \in Callers, t \in Tokens, a \in Amounts, p1 \in Paths1, p2 \in Paths2,
          m \in MinProfits : FlashArbitrage(c, t, a, p1, p2, m) /\ OffChainAtRest
    \/ \E c \in Callers \cup {Pool}, i \in {Self, Attacker} :
          ExecuteOperation(c, i, TA, 2000, 1, <<TA, TB>>, <<TB, TA>>, 0) /\ OffChainAtRest
    \/ LenderCallback /\ OffChainAtRest
    \/ SwapHop1 /\ OffChainAtRest
    \/ SwapHop2 /\ OffChainAtRest
    \/ Settle /\ OffChainAtRest
    \/ LoanReturn /\ OffChainAtRest

Spec == Init /\ [][Next]_allvars

\* The same contract against a lender that replays the callback within one loan.
NextReplay == Next \/ (LenderReplay /\ OffChainAtRest)

SpecReplay == Init /\ [][NextReplay]_allvars

\* The contract as deployed by the test fixture, with nobody calling it.
ContractAtRest ==
    /\ aavePool = Pool
    /\ router1 = R1
    /\ router2 = R2
    /\ poolAB = Zero
    /\ poolBA = Zero
    /\ tokenA = Zero
    /\ paused = FALSE
    /\ entered = FALSE
    /\ inFlashLoan = FALSE
    /\ totalProfits = 0
    /\ ethBalance = 0
    /\ bal = NoBal
    /\ allow = NoAllow
    /\ reserves = NoReserves
    /\ pc = "idle"
    /\ frame = "none"
    /\ call = NoCall
    /\ cb = NoCb
    /\ pre = NoSnapshot
    /\ last = Outcome("constructor", Owner, "ok", "", NoArg)
    /\ txCount = 0

\* The execution mutex used by two bot processes.
InitLock == ContractAtRest /\ LockInit /\ BotInitWith(0, 0) /\ ToolsAtRest

\* A step of the mutex leaves the contract and the bot loop alone.
LockOnly == UNCHANGED <<vars, botvars, execvars, calc, hunt, scan, lease>>

NextLock ==
    \/ \E o \in LockObjs, reachable \in BOOLEAN : Acquire(o, reachable) /\ LockOnly
    \/ \E o \in LockObjs, t \in TokenIds, reachable \in BOOLEAN :
          Release(o, t, reachable) /\ LockOnly
    \/ \E o \in LockObjs : RedisError(o) /\ LockOnly
    \/ RedisExpire /\ LockOnly
    \/ \E o \in LockObjs, t \in TokenIds : TimerFire(o, t) /\ LockOnly
    \/ \E o \in LockObjs : NewLock(o) /\ LockOnly

SpecLock == InitLock /\ [][NextLock]_allvars

\* The same with time passing: every lease's expiry comes due.
SpecLockLive ==
    /\ SpecLock
    /\ WF_allvars(RedisExpire /\ LockOnly)
    /\ \A o \in LockObjs, t \in TokenIds : WF_allvars(TimerFire(o, t) /\ LockOnly)

\* One bot process: its loop and its circuit breaker.
InitBot == ContractAtRest /\ LockInit /\ BotInit /\ ToolsAtRest

\* A step of the bot loop leaves the contract and the mutex alone.
BotOnly == UNCHANGED <<vars, lockvars, execvars, calc, hunt, scan, lease>>

NextBot ==
    \/ BotCheck /\ BotOnly
    \/ BotPaused /\ BotOnly
    \/ ScanRecordSuccess /\ BotOnly
    \/ ScanRecordFailure /\ BotOnly
    \/ ScanReturn /\ BotOnly
    \/ ScanThrow /\ BotOnly
    \/ BotSleep /\ BotOnly
    \/ Tick /\ BotOnly

SpecBot == InitBot /\ [][NextBot]_allvars

\* One bot process scanning real pools: its loop, its breaker and its attempts, with
\* the private channel initialised or not.
InitExec ==
    /\ ContractAtRest
    /\ LockInit
    /\ \E m \in {1, 2} : BotInitWith(m, 2)
    /\ \E f \in BOOLEAN : env = [flashbots |-> f]
    /\ ExecIdle
    /\ CalcAtRest
    /\ HuntAtRest
    /\ ScanAtRest
    /\ LeaseAtRest

\* A step of an attempt leaves the contract model, the mutex model, the calculator
\* and the script alone.
ExecOnly == UNCHANGED <<vars, lockvars, calc, hunt, scan, lease>>

NextExec ==
    \/ BotCheck /\ BotOnly
    \/ BotPaused /\ BotOnly
    \/ BotSleep /\ BotOnly
    \/ Tick /\ BotOnly
    \/ ScanFind /\ ExecOnly
    \/ \E got \in BOOLEAN : ExecuteArbitrageReal(got) /\ ExecOnly
    \/ \E g \in GasPrices \cup {NoGasPrice} : FeeGate(g) /\ ExecOnly
    \/ \E ok \in BOOLEAN : Simulate(ok) /\ ExecOnly
    \/ \E ok \in BOOLEAN : Send(ok) /\ ExecOnly
    \/ \E late \in BOOLEAN, status \in {0, 1} : Receipt(late, status) /\ ExecOnly
    \/ Timeout /\ ExecOnly
    \/ LoopDone /\ ExecOnly

SpecExec == InitExec /\ [][NextExec]_allvars

\* The slippage calculator called with bounded inputs.
InitGuard ==
    /\ ContractAtRest
    /\ LockInit
    /\ BotInitWith(0, 0)
    /\ ExecAtRest
    /\ HuntAtRest
    /\ ScanAtRest
    /\ LeaseAtRest
    /\ \E pct \in SlippageOptions : calc = NewSlippageCalculator(pct)

GuardOnly == UNCHANGED <<vars, lockvars, botvars, execvars, hunt, scan, lease>>

NextGuard ==
    \/ \E o \in Snapshots, a \in LoanAmounts : CallGetProtectedParameters(o, a) /\ GuardOnly
    \/ \E a \in Principals, m \in MinOutputs : CallIsProfitableWithSlippage(a, m) /\ GuardOnly
    \/ \E r \in ReservesIn, p \in ImpactPercents :
          CallCalculateSafeFlashLoanAmount(r, r, p) /\ GuardOnly
    \/ \E pct \in SlippageOptions : SetSlippage(pct) /\ GuardOnly

SpecGuard == InitGuard /\ [][NextGuard]_allvars

\* The hunt-and-kill script run once with each combination of its flags.
InitHunt ==
    /\ ContractAtRest
    /\ LockInit
    /\ BotInitWith(0, 0)
    /\ ExecAtRest
    /\ CalcAtRest
    /\ ScanAtRest
    /\ LeaseAtRest
    /\ \E useFlashbots \in BOOLEAN, dryRun \in BOOLEAN, provider \in BOOLEAN :
          /\ provider => useFlashbots
          /\ hunt = HuntStart(useFlashbots, dryRun, provider)

HuntOnly == UNCHANGED <<vars, lockvars, botvars, execvars, calc, scan, lease>>

NextHunt ==
    \/ \E found \in BOOLEAN : HuntScan(found) /\ HuntOnly
    \/ \E res \in SimResults : HuntPrepare(res) /\ HuntOnly
    \/ \E res \in SimResults : HuntSimulate(res) /\ HuntOnly
    \/ \E ok \in BOOLEAN : HuntSend(ok) /\ HuntOnly
    \/ \E waitRes \in {0, 1} : HuntWait(waitRes) /\ HuntOnly

SpecHunt == InitHunt /\ [][NextHunt]_allvars

\* The scanner over a pair table, called with bounded inputs.
InitScan ==
    /\ ContractAtRest
    /\ LockInit
    /\ BotInitWith(0, 0)
    /\ ExecAtRest
    /\ CalcAtRest
    /\ HuntAtRest
    /\ LeaseAtRest
    /\ \E pairs \in PairTables : scan = NewUniswapScanner(pairs)

ScanOnly == UNCHANGED <<vars, lockvars, botvars, execvars, calc, hunt, lease>>

NextScan ==
    \/ \E a \in QuoteAmounts, rin \in QuoteReserves, rout \in QuoteReserves :
          CallCalculateAmountOut(a, rin, rout) /\ ScanOnly
    \/ \E a \in ScanAmounts : CallScanAll(Weth, a) /\ ScanOnly

SpecScan == InitScan /\ [][NextScan]_allvars

\* Two bot processes attempting under the shared lease while time passes.
InitLease ==
    /\ ContractAtRest
    /\ LockInit
    /\ BotInitWith(0, 0)
    /\ ExecAtRest
    /\ CalcAtRest
    /\ HuntAtRest
    /\ ScanAtRest
    /\ LeaseAtRest

LeaseOnly == UNCHANGED <<vars, lockvars, botvars, execvars, calc, hunt, scan>>

NextLease ==
    \/ \E p \in BotProcs : AttemptBegin(p) /\ LeaseOnly
    \/ \E p \in BotProcs : AttemptSettle(p) /\ LeaseOnly
    \/ \E p \in BotProcs : AttemptTimeout(p) /\ LeaseOnly
    \/ \E d \in ClockSteps : ClockAdvance(d) /\ LeaseOnly

SpecLease == InitLease /\ [][NextLease]_allvars

\* The circuit breaker alone: its three methods called in any order while time passes.
NextBreaker ==
    \/ BreakerRecordSuccess /\ BotOnly
    \/ BreakerRecordFailure /\ BotOnly
    \/ BreakerShouldAllowRequest /\ BotOnly
    \/ Tick /\ BotOnly

SpecBreaker == InitBot /\ [][NextBreaker]_allvars

\* ================================================================ claims
\* The chain state the running transaction started from.
PreChain ==
    <<pre.entered, pre.inFlashLoan, pre.totalProfits, pre.ethBalance, pre.bal,
      pre.allow, pre.reserves>>

\* A flashArbitrage is running (the loan has been requested).
InLoan == pc # "idle" /\ frame = "loan"

\* This step ends a top-level call.
CallEnds == txCount' # txCount

\* C1 (atomicity): an attempt in which a check after the loan is issued fails (the
\* callback's guards, hop 1, every hop-2 venue, final output not above the debt,
\* profit under minProfit) ends right there with balances, allowances, totalProfits
\* and the permit exactly as they were before the attempt.
C1_Atomicity ==
    [][ /\ ( /\ InLoan
             /\ pc = "settle"
             /\ \/ cb.amountReceived = 0
                \/ ~(cb.amountReceived > call.amount + cb.premium)
                \/ cb.amountReceived - (call.amount + cb.premium) < call.minProfit )
           => (pc' = "idle" /\ last'.result = "revert" /\ chain' = PreChain)
        /\ (InLoan /\ CallEnds /\ last'.result = "revert")
           => (chain' = PreChain /\ ~inFlashLoan' /\ config' = config)
      ]_vars

\* C1 witness: an attempt went through both hops (approvals made on the way) and
\* failed the profit check; nothing of it is left.
C1_Witness ==
    /\ pc = "idle"
    /\ last.op = "flashArbitrage"
    /\ last.reason = "Arbitrage not profitable"
    /\ allow = NoAllow
    /\ totalProfits = 0
    /\ ~inFlashLoan

\* C2 (profit monotonicity): the callback is accepted only with
\* finalAmount > amount + premium and finalAmount - (amount + premium) >= minProfit;
\* with finalAmount = amount + premium the attempt is rejected, minProfit = 0 included.
C2_ProfitMonotonicity ==
    [][ (InLoan /\ pc = "settle") =>
          /\ (pc' = "lender" =>
                /\ cb.amountReceived > call.amount + cb.premium
                /\ cb.amountReceived - (call.amount + cb.premium) >= call.minProfit)
          /\ (cb.amountReceived = call.amount + cb.premium =>
                (pc' = "idle" /\ last'.result = "revert"))
      ]_vars

\* C2 witness: an accepted callback, and its attempt asked for no minimum profit.
C2_Witness ==
    /\ pc = "lender"
    /\ cb.count = 1
    /\ call.minProfit = 0
    /\ cb.amountReceived > call.amount + cb.premium

\* The case of C2's second half is reached: final output equal to the debt.
C2_EqualCaseReached ==
    /\ pc = "settle"
    /\ cb.amountReceived > 0
    /\ cb.amountReceived = call.amount + cb.premium
    /\ call.minProfit = 0

\* C3 (loan callback): the callback body runs only for a call from the configured
\* lender, with this contract as initiator, while the permit is set; every call of
\* executeOperation made outside a running flashArbitrage reverts and changes nothing.
C3_CallbackGuarded ==
    [][ /\ (pc' \in {"hop1", "hop2", "settle"} =>
              (cb'.caller = aavePool' /\ cb'.initiator = Self /\ inFlashLoan'))
        /\ (pc = "idle" /\ pc' \in {"hop1", "hop2", "settle"}) => FALSE
        /\ (CallEnds /\ last'.op = "executeOperation") =>
              (last'.result = "revert" /\ chain' = chain /\ config' = config)
      ]_vars

\* C3 witness: the lender itself (MockAavePool.simulateCallback), this contract as
\* initiator, outside any loan: rejected for the missing permit.
C3_Witness ==
    /\ pc = "idle"
    /\ last.op = "executeOperation"
    /\ last.caller = Pool
    /\ aavePool = Pool
    /\ last.result = "revert"
    /\ last.reason = "Not in flash loan"

\* C4 (permit cleared): between top-level calls the permit is never set.
C4_PermitCleared == pc = "idle" => ~inFlashLoan

\* C4 witness: a flashArbitrage was accepted and returned, after an earlier call.
C4_Witness ==
    /\ pc = "idle"
    /\ last.op = "flashArbitrage"
    /\ last.result = "ok"
    /\ txCount >= 2
    /\ ~inFlashLoan

\* C5 (single-use permit): within one flashArbitrage call the callback is accepted
\* at most once; a second executeOperation by the lender is rejected.
C5_SingleUse == InLoan => cb.count <= 1

\* The entry points guarded by onlyOwner.
OwnerOnlyOps ==
    {"flashArbitrage", "executeArbitrage", "withdraw", "withdrawToken", "emergencyPause",
     "emergencyUnpause", "setAavePool", "setRouters", "configurePools", "recordProfit"}

\* C6 (operator-only entry points): a call of an onlyOwner entry point by any other
\* account reverts and leaves configuration, pause flag, balances, allowances,
\* totalProfits and the permit unchanged.
C6_OperatorOnly ==
    [][ (CallEnds /\ last'.op \in OwnerOnlyOps /\ last'.caller # Owner) =>
          (last'.result = "revert" /\ pc = "idle" /\ config' = config /\ chain' = chain)
      ]_vars

\* C6 witness: another account asked for tokens the contract holds and was refused.
C6_Witness ==
    /\ pc = "idle"
    /\ last.op = "withdrawToken"
    /\ last.caller = Attacker
    /\ last.arg.to # Zero
    /\ bal[Self][last.arg.token] >= last.arg.amount
    /\ last.result = "revert"

TradingOps == {"flashArbitrage", "executeArbitrage"}

C7_BlockedReached ==
    /\ last.op \in TradingOps
    /\ last.caller = Owner
    /\ last.reason = "Pausable: paused"
    /\ paused

\* C8 (withdrawal ignores the pause flag): an owner call of withdrawToken or withdraw
\* succeeds exactly when the recipient is not the zero address and the balance covers
\* the amount, and then moves exactly the amount, whatever the pause flag is.
C8_WithdrawIgnoresPause ==
    [][ /\ (CallEnds /\ last'.op = "withdrawToken" /\ last'.caller = Owner) =>
              LET a == last'.arg IN
              IF a.to # Zero /\ bal[Self][a.token] >= a.amount
              THEN /\ last'.result = "ok"
                   /\ bal' = [bal EXCEPT ![Self][a.token] = @ - a.amount]
                   /\ paused' = paused
              ELSE last'.result = "revert" /\ bal' = bal /\ paused' = paused
        /\ (CallEnds /\ last'.op = "withdraw" /\ last'.caller = Owner) =>
              LET a == last'.arg IN
              IF a.to # Zero /\ ethBalance >= a.amount
              THEN /\ last'.result = "ok"
                   /\ ethBalance' = ethBalance - a.amount
                   /\ paused' = paused
              ELSE last'.result = "revert" /\ ethBalance' = ethBalance /\ paused' = paused
      ]_vars

\* C8 witness: tokens were withdrawn while the contract was paused.
C8_Witness ==
    /\ paused
    /\ pc = "idle"
    /\ last.op = "withdrawToken"
    /\ last.caller = Owner
    /\ last.result = "ok"

\* C9 (path validation): the permit is set and the loan requested only for paths of
\* length >= 2 each, path1 starting and path2 ending with the loan asset.
C9_PathValidation ==
    (InLoan \/ inFlashLoan) =>
        /\ Len(call.path1) >= 2
        /\ Len(call.path2) >= 2
        /\ call.path1[1] = call.asset
        /\ call.path2[Len(call.path2)] = call.asset

\* C9 witness: a route whose end is not the asset was refused; no permit, no loan.
C9_Witness ==
    /\ pc = "idle"
    /\ last.op = "flashArbitrage"
    /\ last.caller = Owner
    /\ last.reason = "Paths must start and end with flash loan asset"
    /\ ~inFlashLoan

\* C10 (exact repayment approval): when the callback succeeds the lender's allowance
\* for the loan asset is amount + premium; when the attempt fails it is what it was
\* before the attempt.
C10_ExactApproval ==
    [][ /\ (InLoan /\ pc = "settle" /\ pc' = "lender") =>
              allow'[call.asset][aavePool] = call.amount + cb.premium
        /\ (InLoan /\ CallEnds /\ last'.result = "revert") =>
              allow'[call.asset][aavePool] = pre.allow[call.asset][aavePool]
      ]_vars

\* C10 witness: a callback succeeded with a non-zero premium and proceeds above the debt.
C10_Witness ==
    /\ pc = "lender"
    /\ cb.count = 1
    /\ cb.premium > 0
    /\ cb.amountReceived > call.amount + cb.premium
    /\ allow[call.asset][aavePool] = call.amount + cb.premium

\* C11 (profit counter): an accepted flashArbitrage leaves totalProfits higher by
\* exactly finalAmount - (amount + premium); a failed attempt leaves it as it was; no
\* step of any operation lowers it.
C11_ProfitCounter ==
    [][ /\ (InLoan /\ CallEnds /\ last'.result = "ok") =>
              totalProfits' = pre.totalProfits + (cb.amountReceived - (call.amount + cb.premium))
        /\ (InLoan /\ CallEnds /\ last'.result = "revert") =>
              totalProfits' = pre.totalProfits
        /\ totalProfits' >= totalProfits
      ]_vars

\* C11 witness: an accepted flashArbitrage with a non-zero premium has returned and the
\* counter holds its profit on top of an earlier recorded one.
C11_Witness ==
    /\ pc = "idle"
    /\ last.op = "flashArbitrage"
    /\ last.result = "ok"
    /\ Premium(last.arg.amount) > 0
    /\ totalProfits > Premium(last.arg.amount)
    /\ txCount >= 2

\* C12 (bounded hop-2 fallback): hop 2 goes through [router2, router1] in order; the
\* first venue that does not fail and returns non-zero output is accepted; a venue that
\* fails or returns zero output is passed over for the next one; "All swap attempts
\* failed" is the outcome only when every venue was tried.
C12_BoundedFallback ==
    [][ /\ (pc = "hop2" /\ pc' = "hop2") =>
              (cb'.i = cb.i + 1 /\ cb'.i < RoutersLength /\ cb'.amountReceived = 0)
        /\ (pc = "hop2" /\ pc' = "settle" /\ cb'.venue # Zero) =>
              (cb'.amountReceived > 0 /\ cb'.venue = RouterAt(cb.i))
        /\ (pc = "hop2" /\ pc' = "settle" /\ cb'.venue = Zero) =>
              Len(cb'.tried) = RoutersLength
        /\ (pc = "hop2") => cb'.tried = Append(cb.tried, RouterAt(cb.i))
        /\ (CallEnds /\ last'.reason = "All swap attempts failed") =>
              cb.tried = <<router2, router1>>
      ]_vars

\* C12's zero-output case: the first venue returned zero without failing and the
\* attempt fails although the second venue was never called.
C12_ZeroOutputReached ==
    /\ pc = "settle"
    /\ cb.venue = router2
    /\ cb.amountReceived = 0
    /\ cb.tried = <<router2>>

\* A lease that was handed out and has been neither released nor expired.
Held(t) == leases[t].state = "held"

\* The token is what some store holds for the key.
Stored(t) == redis = t \/ \E o \in LockObjs : locks[o].store = t

Procs == {ProcOf[o] : o \in LockObjs}

\* C13 as stated (mutex exclusivity): over all bot processes, at most one lease on the
\* key is live at any time.
C13_Original == Cardinality({t \in TokenIds : Held(t)}) <= 1

\* C13 amended (mutex exclusivity): among the leases the shared store hands out, at
\* most one is live at any time, and it is the token the store holds; a lease handed
\* out by a process's in-memory fallback is outside this guarantee.
C13_SharedStoreExclusive ==
    /\ Cardinality({t \in TokenIds : Held(t) /\ leases[t].via = "redis"}) <= 1
    /\ \A t \in TokenIds : (Held(t) /\ leases[t].via = "redis") <=> redis = t

\* C13 witness: a process asked the shared store for the key while another process's
\* lease was live, and got null.
C13_Witness ==
    /\ lockLast.op = "acquire"
    /\ lockLast.ret = 0
    /\ ~locks[lockLast.obj].useInMemory
    /\ redis # 0
    /\ Held(redis)
    /\ ProcOf[leases[redis].obj] # ProcOf[lockLast.obj]

\* C14 (token-matched release): a live lease ends only by a release with its own token
\* or by its own expiry; a release with the token of a lease that is no longer live
\* returns 0 and leaves every store as it was, and so does a late expiry timer.
C14_TokenMatchedRelease ==
    [][ /\ \A t \in TokenIds :
              (Held(t) /\ leases'[t].state # "held") =>
                  (lockLast'.token = t /\ lockLast'.op \in {"release", "expire", "timer"})
        /\ (redis # 0 /\ redis' # redis) => lockLast'.token = redis
        /\ \A o \in LockObjs :
              (locks[o].store # 0 /\ locks'[o].store # locks[o].store) =>
                  lockLast'.token = locks[o].store
        /\ (lockLast'.op = "release" /\ lockLast'.ret = 1) => Held(lockLast'.token)
        /\ (lockLast'.op = "release" /\ ~Held(lockLast'.token)) => lockLast'.ret = 0
      ]_lockvars

\* C14 witness: a lease expired in the shared store, another caller re-acquired the
\* key, and the former holder's release with its stale token returned 0.
C14_Witness ==
    /\ lockLast.op = "release"
    /\ lockLast.ret = 0
    /\ leases[lockLast.token].state = "expired"
    /\ leases[lockLast.token].via = "redis"
    /\ redis # 0
    /\ redis # lockLast.token
    /\ Held(redis)
    /\ leases[redis].obj # lockLast.obj

\* The in-memory case of C14: the timer of an earlier lease ran while a later lease of
\* the same map was live, and the later lease is still there.
C14_LateTimerReached ==
    /\ lockLast.op = "timer"
    /\ leases[lockLast.token].state = "released"
    /\ locks[lockLast.obj].store # 0
    /\ Held(locks[lockLast.obj].store)

\* C15 (leases self-expire): a lease whose holder never releases it does not stay:
\* its store drops the key, which can then be acquired again.
C15_LeasesExpire ==
    \A t \in TokenIds : (Held(t) \/ Stored(t)) ~> (~Held(t) /\ ~Stored(t))

\* C15 witness: a lease ended by expiry, never released, and a later acquire on the
\* same store returned a token.
C15_Witness ==
    \E t1, t2 \in TokenIds :
        /\ t1 < t2
        /\ leases[t1].state = "expired"
        /\ Held(t2)
        /\ leases[t1].via = leases[t2].via
        /\ leases[t1].via = "memory" => leases[t1].obj = leases[t2].obj

\* C16 (degraded mode within one process): of the leases a process's in-memory
\* fallback hands out, at most one is live at any time.
C16_InProcessExclusive ==
    \A p \in Procs :
        Cardinality({t \in TokenIds :
            Held(t) /\ leases[t].via = "memory" /\ ProcOf[leases[t].obj] = p}) <= 1

\* The part of C16 the code keeps: on one RedisLock object in fallback, a second
\* acquire while the first lease is live returns null.
C16_SameObjectReached ==
    /\ lockLast.op = "acquire"
    /\ lockLast.ret = 0
    /\ locks[lockLast.obj].useInMemory
    /\ Held(locks[lockLast.obj].store)

\* This step is a call of shouldAllowRequest (the head of the bot's loop).
AsksBreaker == botPc = "check" /\ botPc' # "check"

\* This step is a call of recordFailure.
RecordsFailure == breaker'.failures = breaker.failures + 1

\* C17 (breaker opening): while CLOSED the counter is under maxFailures and
\* shouldAllowRequest returns true; the failure that brings the counter to maxFailures
\* opens the breaker, no earlier one does; while OPEN and resetTimeout has not elapsed
\* since the last failure, shouldAllowRequest returns false and changes nothing.
C17_BreakerOpens ==
    [][ /\ (breaker'.state = "CLOSED") => breaker'.failures < breaker'.maxFailures
        /\ (AsksBreaker /\ breaker.state = "CLOSED") => botPc' = "scan"
        /\ (RecordsFailure /\ breaker.state = "CLOSED") =>
              breaker'.state = IF breaker.failures + 1 = breaker.maxFailures
                               THEN "OPEN" ELSE "CLOSED"
        /\ (AsksBreaker /\ breaker.state = "OPEN"
                /\ now - breaker.lastFailureTime <= breaker.resetTimeout) =>
              (botPc' = "paused" /\ breaker' = breaker)
      ]_botvars

\* C17 witness: maxFailures (more than one) consecutive failures opened the breaker
\* and the next shouldAllowRequest refused.
C17_Witness ==
    /\ breaker.state = "OPEN"
    /\ breaker.maxFailures >= 2
    /\ breaker.failures = breaker.maxFailures
    /\ botPc = "paused"

\* C18 (one trial in HALF_OPEN): with the trial admitted and no outcome recorded
\* since (HALF_OPEN, counter still 0), shouldAllowRequest returns false.
C18_SingleTrial ==
    [][ (AsksBreaker /\ breaker.state = "HALF_OPEN" /\ breaker.failures = 0) =>
            botPc' = "paused"
      ]_botvars

\* C18's case: the trial was admitted and scanning went on without any outcome.
C18_TrialPendingReached ==
    /\ breaker.state = "HALF_OPEN"
    /\ breaker.failures = 0
    /\ botPc = "check"

\* C19 (trial outcome): in HALF_OPEN a recordSuccess closes the breaker, and the
\* first recordFailure after the trial was admitted opens it again.
C19_TrialOutcome ==
    [][ /\ (breaker.state = "HALF_OPEN" /\ breaker.failures = 0 /\ RecordsFailure) =>
              breaker'.state = "OPEN"
        /\ (breaker.state = "HALF_OPEN" /\ breaker'.state # "HALF_OPEN") =>
              (breaker'.state = "OPEN" \/ (breaker'.state = "CLOSED" /\ breaker'.failures = 0))
      ]_botvars

\* C19's case with maxFailures = 1, where the code does re-open.
C19_ReopenedReached ==
    /\ breaker.state = "OPEN"
    /\ breaker.maxFailures = 1
    /\ breaker.failures = 1
    /\ breaker.lastFailureTime > breaker.resetTimeout

\* C20 (OPEN is a bounded cooldown): the step that opens the breaker never ends the
\* bot's loop, and once resetTimeout has elapsed since the last failure the next
\* shouldAllowRequest returns true and scanning resumes.
C20_BoundedCooldown ==
    [][ /\ (breaker.state # "OPEN" /\ breaker'.state = "OPEN") => botPc' # "exited"
        /\ (AsksBreaker /\ breaker.state = "OPEN"
                /\ now - breaker.lastFailureTime > breaker.resetTimeout) =>
              botPc' = "scan"
      ]_botvars

\* The part of C20 the code keeps: a breaker opened inside a scan lets scanning
\* resume after the cooldown.
C20_ResumedReached ==
    /\ breaker.state = "HALF_OPEN"
    /\ botPc = "scan"
    /\ now - breaker.lastFailureTime > breaker.resetTimeout

\* This step is a call of executeArbitrageReal that got the lock.
BeginsAttempt == queue # <<>> /\ queue' = Tail(queue) /\ att'.outcome # "lockBusy"

\* The breaker is OPEN and its cooldown has not elapsed.
Refusing ==
    /\ breaker.state = "OPEN"
    /\ now - breaker.lastFailureTime <= breaker.resetTimeout

\* C21 (single gate): no execution attempt begins while the breaker is OPEN with its
\* cooldown not elapsed, also in the middle of a scan cycle.
C21_SingleGate == [][BeginsAttempt => ~Refusing]_<<botvars, execvars>>

\* The part of C21 the code keeps: at the head of the loop the refusing breaker
\* pauses the bot.
C21_PausedReached == botPc = "paused" /\ Refusing /\ queue = <<>>

C22_AtBoundReached == att.ageMs = 3000 /\ att.submitted

\* C23 (fee-cost gate): nothing is submitted for an opportunity whose fee cost, gas
\* price times gas limit, is more than half its expected profit.
C23_FeeGate == att.submitted => 2 * (att.gasPrice * 800000) <= att.profit

\* The part of C23 the code keeps: a fee cost far above half the profit is refused.
C23_RejectedReached ==
    /\ att.outcome = "feeTooHigh"
    /\ att.gasPrice * 800000 > att.profit
    /\ ~att.submitted

\* C24 (simulate before submit): every bundle sent and every transaction broadcast
\* follows a simulation of the same call, in the same attempt or for the same target
\* block, that succeeded.
C24_SimulateBeforeSubmit ==
    /\ \A k \in DOMAIN hunt.sent : hunt.sent[k].sim = "ok"
    /\ att.submitted => att.simulated

\* The part of C24 the code keeps: the bot drops the attempt whose simulation failed.
C24_BotDropsReached == att.outcome = "simFailed" /\ ~att.submitted

\* The wait for the receipt ends by the timer.
TimesOut == att.pc = "waiting" /\ att'.outcome = "timeout"

\* A transaction whose wait had timed out is mined.
SettlesLate == tx.late = "pending" /\ tx'.late # "pending"

C26_PublicFallbackOnly ==
    /\ (att.path = "public") => ~env.flashbots
    /\ (env.flashbots /\ att.outcome \notin {"none", "lockBusy"}) =>
          (att.path = "private" /\ att.outcome # "noSuchMethod")

\* The part of C26 the code keeps: without the private channel the attempt is
\* broadcast.
C26_FallbackReached == ~env.flashbots /\ att.path = "public" /\ att.submitted

\* C27 (guard before submission): whatever is submitted follows a
\* getProtectedParameters call on the bot's calculator that answered isProfitable.
C27_GuardBeforeSubmit ==
    att.submitted => (calc.cur.fn = "getProtectedParameters" /\ calc.cur.ret.isProfitable)

\* floor(principal * 5 / 10000), said without division.
IsPremiumOf(p, principal) == 10000 * p <= 5 * principal /\ 5 * principal < 10000 * (p + 1)

\* C28 (isProfitable): the answer is true exactly when minAmountOutHop2 is above
\* principal + premium, premium being floor(principal * 5 / 10000); at equality it is
\* false.  The same holds of the isProfitable that getProtectedParameters returns.
C28_IsProfitable ==
    /\ calc.cur.fn = "isProfitableWithSlippage" =>
          \E p \in 0..calc.cur.args[1] :
              /\ IsPremiumOf(p, calc.cur.args[1])
              /\ calc.cur.ret = (calc.cur.args[2] > calc.cur.args[1] + p)
    /\ calc.cur.fn = "getProtectedParameters" =>
          \E p \in 0..calc.cur.args[2] :
              /\ IsPremiumOf(p, calc.cur.args[2])
              /\ calc.cur.ret.isProfitable =
                    (calc.cur.ret.minAmountOut2 > calc.cur.args[2] + p)

\* C28 witness: principal 2000, premium 1, minimum output exactly 2001: not profitable.
C28_Witness ==
    /\ calc.cur.fn = "isProfitableWithSlippage"
    /\ calc.cur.args = <<2000, 2001>>
    /\ calc.cur.ret = FALSE

\* C28's case above the bound: one more unit of output is profitable.
C28_AboveReached ==
    /\ calc.cur.fn = "isProfitableWithSlippage"
    /\ calc.cur.args = <<2000, 2002>>
    /\ calc.cur.ret = TRUE

C30_PriceImpactBound ==
    calc.cur.fn = "calculateSafeFlashLoanAmount" =>
        LET reserveIn == calc.cur.args[1]
            p == calc.cur.args[3]
            amountIn == calc.cur.ret
        IN  /\ amountIn >= 0
            /\ 100 * amountIn <= p * (reserveIn + amountIn)
            /\ 100 * (amountIn + 1) > p * (reserveIn + amountIn + 1)

\* C30 witness: reserve 198 at 1 percent gives 2, and 2 / 200 is exactly 1 percent.
C30_Witness ==
    /\ calc.cur.fn = "calculateSafeFlashLoanAmount"
    /\ calc.cur.args = <<198, 198, 1>>
    /\ calc.cur.ret = 2

\* ------------------------------------------------------------ scanner claims
\* C31 (constant-product formula): calculateAmountOut returns the floor of
\* amountIn * 997 * reserveOut / (reserveIn * 1000 + amountIn * 997), which is
\* strictly less than reserveOut, and 4 for amountIn 10 with reserves 1000 and 500.
C31_ConstantProduct ==
    scan.cur.fn = "calculateAmountOut" =>
        LET amountIn == scan.cur.args[1]
            reserveIn == scan.cur.args[2]
            reserveOut == scan.cur.args[3]
            out == scan.cur.ret
        IN  /\ out >= 0
            /\ out * (reserveIn * 1000 + amountIn * 997) <= amountIn * 997 * reserveOut
            /\ (out + 1) * (reserveIn * 1000 + amountIn * 997) > amountIn * 997 * reserveOut
            /\ out < reserveOut
            /\ scan.cur.args = <<10, 1000, 500>> => out = 4

\* C31 witness: the regression value has been computed.
C31_Witness ==
    /\ scan.cur.fn = "calculateAmountOut"
    /\ scan.cur.args = <<10, 1000, 500>>
    /\ scan.cur.ret = 4

\* The round trips a scanAll call computed: findArbitrage results that carry amounts.
Computed == {k \in 1..Len(scan.cur.evaluated) : "amountOut" \in DOMAIN scan.cur.evaluated[k]}

\* The opportunities returned for the comparison of pair1 with pair2.
ReturnedFor(pair1, pair2) ==
    {k \in 1..Len(scan.cur.ret) :
        scan.cur.ret[k].pair1 = pair1 /\ scan.cur.ret[k].pair2 = pair2}

\* C32 (filtering and ranking): scanAll returns exactly the computed round trips
\* with amountOut > amountIn, each once with profit amountOut - amountIn > 0, in
\* order of non-increasing profit.
C32_FilterAndRank ==
    scan.cur.fn = "scanAll" =>
        LET evaluated == scan.cur.evaluated
            ret == scan.cur.ret
            kept == {k \in Computed : evaluated[k].amountOut > evaluated[k].amountIn}
        IN  /\ Len(ret) = Cardinality(kept)
            /\ \A k \in kept :
                  \E r \in ReturnedFor(evaluated[k].pair1, evaluated[k].pair2) :
                      /\ ret[r].amountOut = evaluated[k].amountOut
                      /\ ret[r].amountIn = evaluated[k].amountIn
            /\ \A r \in 1..Len(ret) :
                  /\ ret[r].amountOut > ret[r].amountIn
                  /\ ret[r].profit = ret[r].amountOut - ret[r].amountIn
                  /\ ret[r].profit > 0
            /\ \A r \in 1..(Len(ret) - 1) : ret[r].profit >= ret[r + 1].profit

\* C32 witness: two opportunities found in increasing order of profit and returned
\* in decreasing order.
C32_Witness ==
    /\ scan.cur.fn = "scanAll"
    /\ Len(scan.cur.ret) = 2
    /\ scan.cur.ret[1].profit > scan.cur.ret[2].profit
    /\ \E k, l \in Computed :
          /\ k < l
          /\ scan.cur.evaluated[k].profitable
          /\ scan.cur.evaluated[l].profitable
          /\ scan.cur.evaluated[k].profit < scan.cur.evaluated[l].profit

\* C32: a round trip that returns exactly amountIn is computed and not returned.
C32_ZeroProfitReached ==
    /\ scan.cur.fn = "scanAll"
    /\ \E k \in Computed :
          /\ scan.cur.evaluated[k].amountOut = scan.cur.evaluated[k].amountIn
          /\ ReturnedFor(scan.cur.evaluated[k].pair1, scan.cur.evaluated[k].pair2) = {}

\* C32: two opportunities of equal profit are returned.
C32_TieReached ==
    /\ scan.cur.fn = "scanAll"
    /\ Len(scan.cur.ret) = 2
    /\ scan.cur.ret[1].profit = scan.cur.ret[2].profit

\* A pair's reserve of a token.
ReserveOf(entry, token) == IF entry.token0 = token THEN entry.reserve0 ELSE entry.reserve1

\* The two venues of the profitable-route scenario, in WETH for tokenA and USDC for
\* tokenB: (1000, 50) and (50, 1000).
IsVenueA(entry) ==
    /\ entry.readable
    /\ SortedTokens(entry.label) = <<Usdc, Weth>>
    /\ ReserveOf(entry, Weth) = 1000
    /\ ReserveOf(entry, Usdc) = 50

IsVenueB(entry) ==
    /\ entry.readable
    /\ SortedTokens(entry.label) = <<Usdc, Weth>>
    /\ ReserveOf(entry, Weth) = 50
    /\ ReserveOf(entry, Usdc) = 1000

\* C33 (profitable-route scenario): scanAll with amountIn 1 returns an opportunity
\* for venue A and venue B on different dexes, whichever is listed first.
C33_EitherOrder ==
    (scan.cur.fn = "scanAll" /\ scan.cur.args = <<Weth, 1>>) =>
        \A i, j \in 1..Len(scan.pairs) :
            (/\ i < j
             /\ scan.pairs[i].dex # scan.pairs[j].dex
             /\ \/ IsVenueA(scan.pairs[i]) /\ IsVenueB(scan.pairs[j])
                \/ IsVenueB(scan.pairs[i]) /\ IsVenueA(scan.pairs[j]))
            => ReturnedFor(i, j) # {}

\* C33: with venue B listed first the round trip is found.
C33_FoundReached ==
    /\ scan.cur.fn = "scanAll"
    /\ scan.cur.args = <<Weth, 1>>
    /\ \E i, j \in 1..Len(scan.pairs) :
          /\ i < j
          /\ IsVenueB(scan.pairs[i])
          /\ IsVenueA(scan.pairs[j])
          /\ \E r \in ReturnedFor(i, j) : scan.cur.ret[r].profit = 273

\* Two pairs of the same tokens holding the same reserves.
SameReserves(p, q) ==
    /\ SortedTokens(p.label) = SortedTokens(q.label)
    /\ ReserveOf(p, p.token0) = ReserveOf(q, p.token0)
    /\ ReserveOf(p, Token1(p)) = ReserveOf(q, Token1(p))

\* C34 (no discrepancy): a round trip over two pairs with identical reserves
\* returns less than amountIn and is not reported; when every comparison made is
\* of that kind scanAll returns nothing.
C34_NoDiscrepancy ==
    scan.cur.fn = "scanAll" =>
        LET evaluated == scan.cur.evaluated
            level == {k \in Computed :
                        SameReserves(scan.pairs[evaluated[k].pair1],
                                     scan.pairs[evaluated[k].pair2])}
        IN  /\ \A k \in level :
                  /\ evaluated[k].amountOut < evaluated[k].amountIn
                  /\ ReturnedFor(evaluated[k].pair1, evaluated[k].pair2) = {}
            /\ level = Computed => scan.cur.ret = <<>>

\* C34 witness: the only comparison made is of two pairs with identical reserves,
\* one of them with its tokens the other way round, and nothing is returned.
C34_Witness ==
    /\ scan.cur.fn = "scanAll"
    /\ scan.cur.args[2] = 1000
    /\ Computed = {1}
    /\ LET e == scan.cur.evaluated[1]
       IN  /\ SameReserves(scan.pairs[e.pair1], scan.pairs[e.pair2])
           /\ scan.pairs[e.pair1].token0 # scan.pairs[e.pair2].token0
           /\ e.amountOut > 0
    /\ scan.cur.ret = <<>>

\* ------------------------------------------------------ ledger state claims
\* The entry points the interface declares: requestLoan (flashArbitrage), the loan
\* callback, withdraw, withdrawToken, pause and unpause.
DeclaredOps ==
    {"flashArbitrage", "executeOperation", "withdraw", "withdrawToken", "emergencyPause",
     "emergencyUnpause"}

\* This step belongs to a call of a declared entry point: it ends one, or it is a
\* step inside a flashArbitrage or a callback.
InDeclaredOp == IF CallEnds /\ pc = "idle" THEN last'.op \in DeclaredOps ELSE TRUE

\* C35 (ledger state frame): totalProfits changes only inside a loan, and the
\* configured addresses, the pause flag and the permit change only in a step of
\* flashArbitrage, the callback, withdraw, withdrawToken, pause or unpause.
C35_DeclaredEntryPointsOnly ==
    [][ /\ totalProfits' # totalProfits => InLoan
        /\ (config' # config \/ inFlashLoan' # inFlashLoan) => InDeclaredOp
      ]_vars

\* C35: going by the interface, an accepted callback has raised the counter from 0.
C35_CallbackCountsReached ==
    /\ pc = "idle"
    /\ txCount = 1
    /\ last.op = "flashArbitrage"
    /\ last.result = "ok"
    /\ totalProfits > 0

\* The legacy round trip computed from the pools' reserves before the call.
LegacyTokenB ==
    IF AmmTokens[poolAB][1] = tokenA THEN AmmTokens[poolAB][2] ELSE AmmTokens[poolAB][1]

ReserveAt(pool, token) ==
    IF AmmTokens[pool][1] = token THEN reserves[pool][1] ELSE reserves[pool][2]

HopAB(amountIn) ==
    GetAmountOut(amountIn, ReserveAt(poolAB, tokenA), ReserveAt(poolAB, LegacyTokenB))

RoundTrip(amountIn) ==
    GetAmountOut(HopAB(amountIn), ReserveAt(poolBA, LegacyTokenB), ReserveAt(poolBA, tokenA))

\* Both swaps can move their tokens.
SwapsGoThrough(amountIn) ==
    /\ amountIn > 0
    /\ bal[Self][tokenA] >= amountIn
    /\ HopAB(amountIn) > 0
    /\ bal[poolAB][LegacyTokenB] >= HopAB(amountIn)
    /\ bal[poolBA][tokenA] >= RoundTrip(amountIn)

C36_AcceptedReached ==
    /\ pc = "idle"
    /\ last.op = "executeArbitrage"
    /\ last.result = "ok"
    /\ totalProfits > 0

\* ------------------------------------------------------------- lease claims
InFlight(p) == lease.procs[p].pc = "inFlight"

\* C37 (the lease covers the attempt): while one process's attempt is in flight
\* the key is held for it, so no other process acquires 'arb_lock' and two attempts
\* are never in flight at once.
C37_LeaseCoversAttempt ==
    /\ \A p \in BotProcs :
          InFlight(p) => KeyAt(lease.key, lease.clock) = lease.procs[p].token
    /\ \A p, q \in BotProcs : (InFlight(p) /\ InFlight(q)) => p = q

\* C37: within the lease's 15000 ms the other process asks for the lock and is refused.
C37_RefusedReached ==
    /\ InFlight("b1")
    /\ ~InFlight("b2")
    /\ lease.clock > lease.procs["b1"].since
    /\ lease.last = [proc |-> "b2", op |-> "acquire", ret |-> 0]

\* ----------------------------------------------------------- breaker state
\* C38 (breaker state invariant): a CLOSED breaker has fewer than maxFailures
\* failures; an OPEN breaker has at least maxFailures and its lastFailureTime is set.
C38_BreakerStateInvariant ==
    /\ breaker.state = "CLOSED" => breaker.failures < breaker.maxFailures
    /\ breaker.state = "OPEN" =>
          (breaker.failures >= breaker.maxFailures /\ breaker.lastFailureTime # Null)

\* C38 witness: a breaker opened by two failures was closed by a success while its
\* cooldown was running.
C38_Witness ==
    /\ breaker.state = "CLOSED"
    /\ breaker.maxFailures = 2
    /\ breaker.failures = 0
    /\ breaker.lastFailureTime # Null
    /\ now - breaker.lastFailureTime <= breaker.resetTimeout

\* C38: failures recorded on an OPEN breaker take the counter past maxFailures.
C38_PastThresholdReached ==
    /\ breaker.state = "OPEN"
    /\ breaker.failures > breaker.maxFailures

\* ------------------------------------------------------------ hop 2 claims
\* The token hop 1 pays out, which hop 2 sells.
IntermediateToken == call.path1[Len(call.path1)]

\* The venue loop is about to try routers[1], the fallback router1.
FallbackNext == pc = "hop2" /\ cb.i = 1

\* C39 (fallback allowance): when hop 2 is tried on router1, the contract has
\* approved router1 for at least intermediateAmount of the intermediate token.
C39_FallbackAllowance ==
    FallbackNext => allow[IntermediateToken][router1] >= cb.intermediateAmount

\* C39: the primary venue router2 is tried with exactly intermediateAmount approved.
C39_PrimaryApprovedReached ==
    /\ pc = "hop2"
    /\ cb.i = 0
    /\ cb.intermediateAmount > 0
    /\ allow[IntermediateToken][router2] = cb.intermediateAmount

\* What a venue quoting rate q per 1000 pays for the intermediate amount.
QuotedOutput(q) == (cb.intermediateAmount * q) \div 1000

\* The declared criterion of executeOperation: output above the debt, by at least
\* minProfit.
MeetsDeclaredCriterion(out) ==
    /\ out > AmountOwed(call.amount, cb.premium)
    /\ out - AmountOwed(call.amount, cb.premium) >= call.minProfit

\* C40 (acceptance by the declared criterion only): at hop 2 of a loan, every output
\* a venue may pay that meets the declared criterion also passes the two fixed
\* floors of _executeSwaps, so the floors reject no such attempt.
C40_DeclaredCriterionOnly ==
    (pc = "hop2" /\ InLoan) =>
        \A q \in Rates :
            MeetsDeclaredCriterion(QuotedOutput(q)) =>
                /\ QuotedOutput(q) >= MinAmountOut(call.amount)
                /\ QuotedOutput(q) >= NetFloor(call.amount)

\* C40: an attempt whose output clears the floors is accepted with its minProfit met.
C40_AcceptedReached ==
    /\ pc = "idle"
    /\ last.op = "flashArbitrage"
    /\ last.result = "ok"
    /\ last.arg.amount = 2000
    /\ totalProfits >= 59
    /\ txCount = 1

====
